---- MODULE Spec2Model ----
(***************************************************************************)
(* Multi-Agent Coordination Server: task graph store, dependency resolver, *)
(* claim coordinator, workflow lifecycle controller and the file access    *)
(* coordinator (file lock records of the store, in-process lock manager).  *)
(*                                                                         *)
(* The relational store is modelled as PostgreSQL at READ COMMITTED, the   *)
(* store the ORM and the service layer are written for: a statement reads  *)
(* committed rows, SELECT ... FOR UPDATE and UPDATE take row locks that    *)
(* are held until the session commits or rolls back, and a statement that  *)
(* waited for a row lock re-evaluates its WHERE clause on the row's newest *)
(* version and moves on to the next row of its snapshot when the row no    *)
(* longer qualifies.  A statement that locks several rows is modelled as   *)
(* acquiring them together (deadlock aborts are not modelled), and the     *)
(* statements of reset_tasks_for_rework as one step.                       *)
(*                                                                         *)
(* A request handler works through one ORM session, created with           *)
(* expire_on_commit=False: an object the session has loaded keeps the      *)
(* attribute values of its first load across commits, and a later SELECT   *)
(* (also one FOR UPDATE) that returns the row again does not refresh them. *)
(***************************************************************************)
EXTENDS Integers, Sequences, FiniteSets, TLC

----------------------------------------------------------------------------
(* Bounds of the model *)

NumSessions == 2      \* HTTP request handlers that can be in flight together
NumClients == 2       \* polling worker processes
NumPollers == 3       \* concurrent pollers of the claim scenario (SpecClaim)
MaxResets == 1        \* rework resets executed in one behaviour
MaxAttempts == 1      \* POST /results attempts a worker makes for one task
MaxReadied == 2       \* cap of the history counter readied
NumFileClients == 2   \* clients calling the file lock methods of the service
MaxRecords == 2       \* file_access rows inserted in one behaviour
NumProcs == 2         \* worker processes, each with its own FileAccessManager
NumCors == 3          \* coroutines that lock files, spread over the processes
TimeoutTicks == 2     \* timeout_seconds of a file lock, in backoff sleeps
NumSubmitters == 2    \* POST /tasks handlers that can be in flight together
MaxFaults == 1        \* database errors and restarts injected in one behaviour
MaxFaultTasks == 2    \* tasks of the workflow in the failure scenario
MaxCounted == 2       \* cap of the history counters in the rework scenario

Sessions == 1..NumSessions
Clients == 1..NumClients
Pollers == 1..NumPollers

FileClients == 1..NumFileClients
Procs == 1..NumProcs
Cors == 1..NumCors
Submitters == 1..NumSubmitters
CounterTypes == {"project", "workflow", "task"}
FilePaths == {"/tmp/x"}
AccessTypes == {"read", "write", "exclusive"}

NoClient == 0         \* client_id IS NULL
NoTask == 0           \* no task / null response

Agents == {"analyst", "researcher"}

\* step ids the planner (LLM) gives the tasks of a plan; replaced on save
StepA == 101
StepB == 102
StepC == 103
StepD == 104
StepUnknown == 199

----------------------------------------------------------------------------
(* Plans the LLM gateway can return for a submit request *)

PlanTask(s, d, a) == [step_id |-> s, dependencies |-> d, assigned_agent |-> a]

PlanSingle == << PlanTask(StepA, <<>>, "researcher") >>

PlanPair == << PlanTask(StepA, <<>>, "researcher"),
               PlanTask(StepB, <<>>, "researcher") >>

PlanChain == << PlanTask(StepA, <<>>, "researcher"),
                PlanTask(StepB, <<StepA>>, "analyst") >>

PlanDiamond == << PlanTask(StepA, <<>>, "researcher"),
                  PlanTask(StepB, <<StepA>>, "analyst"),
                  PlanTask(StepC, <<StepA>>, "analyst"),
                  PlanTask(StepD, <<StepB, StepC>>, "researcher") >>

\* two independent tasks and one that joins them
PlanJoin == << PlanTask(StepA, <<>>, "researcher"),
               PlanTask(StepB, <<>>, "analyst"),
               PlanTask(StepC, <<StepA, StepB>>, "analyst") >>

\* a dependency on a task listed later in the plan
PlanForward == << PlanTask(StepA, <<StepB>>, "analyst"),
                  PlanTask(StepB, <<>>, "researcher") >>

\* a dependency on a step id that is not in the plan
PlanDangling == << PlanTask(StepA, <<>>, "researcher"),
                   PlanTask(StepB, <<StepUnknown>>, "analyst") >>

Plans == {PlanSingle, PlanPair, PlanChain, PlanJoin, PlanDiamond,
          PlanForward, PlanDangling}


----------------------------------------------------------------------------
(* Helpers *)

Range(f) == {f[i] : i \in DOMAIN f}

RECURSIVE SeqOfSet(_)
\* the elements of a set of integers in ascending order
SeqOfSet(S) ==
    IF S = {} THEN <<>>
    ELSE LET m == CHOOSE x \in S : \A y \in S : x <= y
         IN <<m>> \o SeqOfSet(S \ {m})

----------------------------------------------------------------------------
(* State *)

VARIABLES
    tasks,       \* task_steps rows of the workflow, in created_at order
    wfStatus,    \* task_graphs.status of the workflow; "NONE": no row yet
    projStatus,  \* projects.status of the workflow's project; "NONE": no row
    counters,    \* id_counters rows: current_value per counter kind
    results,     \* results rows: number of rows per task (by row index)
    audits,      \* audit_reports rows: number of rows of the workflow
    taskLock,    \* row lock on each task row: holding session or 0
    wfLock,      \* row lock on the workflow row: holding session or 0
    sess,        \* request handlers in flight: position and locals
    held,        \* per worker: step id of the task it is executing, or 0
    attempts,    \* per worker: result posts sent for the task it holds
    resets,      \* history: number of rework resets executed
    readied,     \* history: times each task row became READY (capped)
    polled,      \* history (claim scenario): poll outcome per poller
    file_access, \* file_access rows, in insertion order
    calls,       \* per client: its file lock call to the service in flight
    managers,    \* per process: _active_locks and _lock_registry
    cors,        \* per coroutine: its file_lock call or task execution
    exists,      \* per path: the file exists on disk
    task_graphs, \* committed task_graphs rows of every workflow (submit scenario)
    task_steps,  \* committed task_steps rows of every workflow (submit scenario)
    counterLock, \* row lock on each id_counters row: holding submit handler or 0
    subs,        \* POST /tasks handlers in flight: position, locals, transaction
    advanced,    \* history: save_task_graph calls whose counter advance committed
    faults,      \* history: database errors and restarts injected so far
    answers      \* history: status code of the last answer to each worker

recordVars == << file_access, calls >>

lockVars == << managers, cors, exists >>

\* the state of the file-access coordination, which the task store's
\* operations leave alone
fileVars == << recordVars, lockVars >>

\* the state of the submit scenario, in which several POST /tasks handlers run
\* concurrently against the id counters
submitVars == << task_graphs, task_steps, counterLock, subs, advanced >>

faultVars == << faults, answers >>

\* what the operations on the single workflow leave alone
otherVars == << fileVars, submitVars, faultVars >>

\* the state of the task store and its request handlers
storeVars == << tasks, wfStatus, projStatus, counters, results, audits,
                taskLock, wfLock, sess, held, attempts, resets, readied,
                polled >>

vars == << tasks, wfStatus, projStatus, counters, results, audits, taskLock,
           wfLock, sess, held, attempts, resets, readied, polled,
           file_access, calls, managers, cors, exists,
           task_graphs, task_steps, counterLock, subs, advanced,
           faults, answers >>

\* view and wfSeen are the session's identity map: the status of the task
\* objects and of the workflow object it has loaded
Idle == [op |-> "idle", pc |-> "idle", client |-> NoClient, call |-> 0,
         tid |-> NoTask, cand |-> <<>>, view |-> <<>>, wfSeen |-> "NONE"]

\* agent_capabilities of a worker's configuration: the first two workers take
\* every task, further workers are researchers
ClientCaps(c) == IF c <= 2 THEN Agents ELSE {"researcher"}

\* row index of the task with the given step id, 0 when there is none
RowOf(ts, sid) ==
    IF \E i \in DOMAIN ts : ts[i].step_id = sid
    THEN CHOOSE i \in DOMAIN ts : ts[i].step_id = sid
    ELSE 0

----------------------------------------------------------------------------
(* Planning and persistence of a task graph *)

StepFallback == 100   \* "TID_PENDING", the placeholder id of the fallback task

\* AgentManager._validate_dependencies: every dependency names a step of the plan
ValidateDependencies(plan) ==
    LET step_ids == {plan[i].step_id : i \in DOMAIN plan}
    IN \A i \in DOMAIN plan : \A dep \in Range(plan[i].dependencies) : dep \in step_ids

\* AgentManager._mark_initial_tasks_ready, after every task was set PENDING
MarkInitialTasksReady(plan) ==
    [i \in DOMAIN plan |->
        [step_id |-> plan[i].step_id,
         dependencies |-> plan[i].dependencies,
         assigned_agent |-> plan[i].assigned_agent,
         status |-> IF plan[i].dependencies = <<>> THEN "READY" ELSE "PENDING"]]

\* mutant: the fallback task is created PENDING
CreateFallbackWorkflowPending ==
    << [step_id |-> StepFallback, dependencies |-> <<>>,
        assigned_agent |-> "analyst", status |-> "PENDING"] >>

\* AgentManager._create_fallback_workflow
CreateFallbackWorkflow ==
    << [step_id |-> StepFallback, dependencies |-> <<>>,
        assigned_agent |-> "analyst", status |-> "READY"] >>

\* SequentialIDGenerator._get_next_id; 0 stands for "no counter row yet"
GetNextId(current_value) ==
    IF current_value = 0 THEN 1 ELSE current_value + 1

MapGet(mapping, k) == IF k \in DOMAIN mapping THEN mapping[k] ELSE k

RECURSIVE SaveSteps(_, _, _, _, _)
\* the loop of DatabaseService.save_task_graph over task_graph.tasks: one
\* sequential id per task, dependencies rewritten with the mapping built so far
SaveSteps(graph, i, mapping, counter, rows) ==
    IF i > Len(graph) THEN [rows |-> rows, counter |-> counter]
    ELSE LET task_id == GetNextId(counter)
             m2 == [k \in DOMAIN mapping \cup {graph[i].step_id} |->
                        IF k = graph[i].step_id THEN task_id ELSE mapping[k]]
             deps == [d \in DOMAIN graph[i].dependencies |->
                        MapGet(m2, graph[i].dependencies[d])]
             row == [step_id |-> task_id,
                     dependencies |-> deps,
                     assigned_agent |-> graph[i].assigned_agent,
                     status |-> graph[i].status,
                     client_id |-> NoClient,
                     started_at |-> FALSE,
                     completed_at |-> FALSE]
         IN SaveSteps(graph, i + 1, m2, task_id, Append(rows, row))

SaveTaskGraph(graph, counter) == SaveSteps(graph, 1, << >>, counter, << >>)

----------------------------------------------------------------------------
(* Initial state: an empty store, no request in flight *)

InitStore ==
    /\ tasks = << >>
    /\ wfStatus = "NONE"
    /\ projStatus = "NONE"
    /\ counters = [project |-> 0, workflow |-> 0, task |-> 0]
    /\ results = << >>
    /\ audits = 0
    /\ taskLock = << >>
    /\ wfLock = 0
    /\ resets = 0
    /\ readied = << >>

\* no file_access row, no file lock call in flight
NoCall == [op |-> "idle", pc |-> "idle", file_path |-> "", access_type |-> "",
           timeout_minutes |-> 0, returned |-> "none"]

InitFileAccess ==
    /\ file_access = << >>
    /\ calls = [c \in FileClients |-> NoCall]

\* a coroutine that is not locking a file; handle is the state of the file
\* handle it has opened: CLOSED, OPEN, or the flock it holds
NoCor == [kind |-> "", pc |-> "idle", file_path |-> "", access_type |-> "",
          handle |-> "CLOSED", waited |-> 0, raised |-> "none"]

\* FileAccessManager.__init__ in every process; no file yet
InitFileLocks ==
    /\ managers = [p \in Procs |-> [active_locks |-> << >>, lock_registry |-> {}]]
    /\ cors = [k \in Cors |-> NoCor]
    /\ exists = [f \in FilePaths |-> FALSE]

\* a POST /tasks handler that has not started.  cval, ins, wfs and rows are
\* the writes of its transaction: counter values, counter rows inserted,
\* workflow rows and task rows; saves counts its save_task_graph calls and
\* failed holds those that raised
NoSubmit == [pc |-> "idle", phase |-> "select", plan |-> << >>, llmOk |-> FALSE,
             graph |-> << >>, fallback |-> FALSE, saves |-> 0, failed |-> {},
             session |-> "active",
             cval |-> [project |-> 0, workflow |-> 0, task |-> 0],
             ins |-> {}, wfs |-> << >>, rows |-> << >>, response |-> "none"]

\* an empty store, no counter row, no submit request in flight
InitSubmit ==
    /\ task_graphs = << >>
    /\ task_steps = << >>
    /\ counterLock = [k \in CounterTypes |-> 0]
    /\ subs = [u \in Submitters |-> NoSubmit]
    /\ advanced = {}

InitFaults ==
    /\ faults = 0
    /\ answers = << >>

Init ==
    /\ InitStore
    /\ sess = [s \in Sessions |-> Idle]
    /\ held = [c \in Clients |-> NoTask]
    /\ attempts = [c \in Clients |-> 0]
    /\ polled = << >>
    /\ InitFileAccess
    /\ InitFileLocks
    /\ InitSubmit
    /\ InitFaults

----------------------------------------------------------------------------
(* POST /tasks: submit_task -> AgentManager.plan_and_save_task *)

\* the store after plan_and_save_task; the request's session commits on return
PlanAndSaveTask(plan, llmOk) ==
    LET planned == llmOk /\ ValidateDependencies(plan)
        graph == IF planned THEN MarkInitialTasksReady(plan)
                 ELSE CreateFallbackWorkflow
        saved == SaveTaskGraph(graph, counters.task)
    IN /\ tasks' = saved.rows
       /\ counters' = [project |-> IF planned THEN GetNextId(counters.project)
                                   ELSE counters.project,
                       workflow |-> GetNextId(counters.workflow),
                       task |-> saved.counter]
       /\ wfStatus' = "IN_PROGRESS"
       /\ projStatus' = IF planned THEN "IN_PROGRESS" ELSE "NONE"
       /\ results' = [i \in DOMAIN saved.rows |-> 0]
       /\ taskLock' = [i \in DOMAIN saved.rows |-> 0]
       /\ readied' = [i \in DOMAIN saved.rows |-> 0]

Submit ==
    /\ wfStatus = "NONE"
    /\ \E plan \in Plans, llmOk \in BOOLEAN : PlanAndSaveTask(plan, llmOk)
    /\ UNCHANGED << audits, wfLock, sess, held, attempts, resets, polled >>

----------------------------------------------------------------------------
(* Sessions and row locks *)

\* the slot a new request handler runs in (slots are interchangeable)
FreeSession ==
    CHOOSE s \in DOMAIN sess :
        /\ sess[s].op = "idle"
        /\ \A r \in DOMAIN sess : sess[r].op = "idle" => s <= r

SomeSessionFree == \E s \in DOMAIN sess : sess[s].op = "idle"

\* session s can lock task row i: nobody else holds it
FreeFor(s, i) == taskLock[i] \in {0, s}

\* commit or rollback of session s: every row lock it holds is released
ReleasedTaskLocks(s, locks) ==
    [i \in DOMAIN locks |-> IF locks[i] = s THEN 0 ELSE locks[i]]

ReleasedWfLock(s) == IF wfLock = s THEN 0 ELSE wfLock

----------------------------------------------------------------------------
(* GET /tasks/ready: get_ready_task -> DatabaseService.get_and_claim_ready_task *)

\* WHERE status = 'READY' AND assigned_agent IN (caps) AND client_id IS NULL
ClaimPredicate(row, caps) ==
    /\ row.status = "READY"
    /\ row.assigned_agent \in caps
    /\ row.client_id = NoClient

\* mutant: LIMIT 1 cuts the snapshot before the rows are locked
ReadyCandidatesLimitFirst(ts, caps) ==
    LET all == SeqOfSet({i \in DOMAIN ts : ClaimPredicate(ts[i], caps)})
    IN IF all = << >> THEN << >> ELSE << Head(all) >>

\* mutant: the statement returns the newest row first
ReadyCandidatesNewestFirst(ts, caps) ==
    LET all == SeqOfSet({i \in DOMAIN ts : ClaimPredicate(ts[i], caps)})
    IN [n \in DOMAIN all |-> all[Len(all) + 1 - n]]

\* rows the generic statement's snapshot yields, ORDER BY created_at
ReadyCandidates(ts, caps) ==
    SeqOfSet({i \in DOMAIN ts : ClaimPredicate(ts[i], caps)})

\* rows the preferred statement's snapshot yields
PreferredCandidates(ts, caps, pref) ==
    SeqOfSet({i \in DOMAIN ts : ts[i].step_id = pref /\ ClaimPredicate(ts[i], caps)})

\* mutant: the statement does not lock, so status and client_id are those of
\* its snapshot and are not evaluated again
RecheckWithoutLock(row, caps) == row.assigned_agent \in caps

\* re-evaluation of the WHERE clause on a row the statement waited for
RecheckAfterLock(row, caps) == ClaimPredicate(row, caps)

\* DatabaseService._check_dependencies_satisfied: the number of COMPLETED rows
\* whose step_id is in the list equals the length of the list
CheckDependenciesSatisfied(ts, i) ==
    \/ ts[i].dependencies = << >>
    \/ Cardinality({j \in DOMAIN ts :
                      /\ ts[j].step_id \in Range(ts[i].dependencies)
                      /\ ts[j].status = "COMPLETED"})
         = Len(ts[i].dependencies)

\* the claim: status, client_id and started_at of the locked row
ClaimRow(row, client_id) ==
    [row EXCEPT !.status = "IN_PROGRESS", !.client_id = client_id,
                !.started_at = TRUE]

\* a worker polls when it holds no task and has no poll outstanding; pref is the
\* step id of a cached ready task (0: Redis not connected or cache miss)
PollStart(c, pref) ==
    /\ SomeSessionFree
    /\ held[c] = NoTask
    /\ \A r \in DOMAIN sess : ~(sess[r].op = "poll" /\ sess[r].client = c)
    /\ LET s == FreeSession
       IN sess' = [sess EXCEPT ![s] =
                [op |-> "poll",
                 pc |-> IF pref # NoTask THEN "pref_lock" ELSE "lock",
                 client |-> c,
                 call |-> IF pref # NoTask THEN 1 ELSE 2,
                 tid |-> NoTask,
                 cand |-> IF pref # NoTask
                          THEN PreferredCandidates(tasks, ClientCaps(c), pref)
                          ELSE ReadyCandidates(tasks, ClientCaps(c)),
                 view |-> << >>,
                 wfSeen |-> "NONE"]]
    /\ UNCHANGED << tasks, wfStatus, projStatus, counters, results, audits,
                    taskLock, wfLock, held, attempts, resets, readied >>

\* preferred_stmt of the call with preferred_task_id.  A row that is found leads
\* to self._check_task_dependencies_satisfied, which DatabaseService does not
\* define: AttributeError, caught by the handler: rollback, return None.
PollPrefLock(s) ==
    /\ sess[s].op = "poll" /\ sess[s].pc = "pref_lock"
    /\ IF sess[s].cand = << >>
       THEN \* no preferred row: the same call goes on to the generic statement
            /\ sess' = [sess EXCEPT ![s].pc = "select"]
            /\ UNCHANGED taskLock
       ELSE LET i == Head(sess[s].cand)
            IN /\ FreeFor(s, i)
               /\ IF RecheckAfterLock(tasks[i], ClientCaps(sess[s].client))
                  THEN /\ sess' = [sess EXCEPT ![s].pc = "select", ![s].call = 2,
                                               ![s].cand = << >>]
                       /\ taskLock' = ReleasedTaskLocks(s, taskLock)
                  ELSE /\ sess' = [sess EXCEPT ![s].cand = Tail(@)]
                       /\ UNCHANGED taskLock
    /\ UNCHANGED << tasks, wfStatus, projStatus, counters, results, audits,
                    wfLock, held, attempts, resets, readied >>

\* ready_tasks_stmt is executed: its snapshot
PollSelect(s) ==
    /\ sess[s].op = "poll" /\ sess[s].pc = "select"
    /\ sess' = [sess EXCEPT ![s].pc = "lock",
                            ![s].cand = ReadyCandidates(tasks, ClientCaps(sess[s].client))]
    /\ UNCHANGED << tasks, wfStatus, projStatus, counters, results, audits,
                    taskLock, wfLock, held, attempts, resets, readied >>

\* the call returned None: the endpoint falls back to the call without a
\* preferred task, or answers null (the request's session then commits)
PollReturnsNone(s, lockedRow) ==
    IF sess[s].call = 1
    THEN /\ sess' = [sess EXCEPT ![s].pc = "select", ![s].call = 2,
                                 ![s].cand = << >>]
         /\ taskLock' = IF lockedRow = 0 THEN taskLock
                        ELSE [taskLock EXCEPT ![lockedRow] = s]
         /\ UNCHANGED << tasks, held, attempts >>
    ELSE /\ sess' = [sess EXCEPT ![s] = Idle]
         /\ taskLock' = ReleasedTaskLocks(s, taskLock)
         /\ UNCHANGED << tasks, held, attempts >>

\* ready_tasks_stmt locks the first row of its snapshot that still qualifies,
\* then _check_dependencies_satisfied reads the dependencies' rows (which the
\* session does not lock)
PollLock(s) ==
    /\ sess[s].op = "poll" /\ sess[s].pc = "lock"
    /\ IF sess[s].cand = << >>
       THEN PollReturnsNone(s, 0)
       ELSE LET i == Head(sess[s].cand)
            IN /\ FreeFor(s, i)
               /\ IF ~RecheckAfterLock(tasks[i], ClientCaps(sess[s].client))
                  THEN /\ sess' = [sess EXCEPT ![s].cand = Tail(@)]
                       /\ UNCHANGED << tasks, taskLock, held, attempts >>
                  ELSE IF ~CheckDependenciesSatisfied(tasks, i)
                  THEN PollReturnsNone(s, i)
                  ELSE /\ sess' = [sess EXCEPT ![s].pc = "claim",
                                               ![s].tid = tasks[i].step_id]
                       /\ taskLock' = [taskLock EXCEPT ![i] = s]
                       /\ UNCHANGED << tasks, held, attempts >>
    /\ UNCHANGED << wfStatus, projStatus, counters, results, audits, wfLock,
                    resets, readied >>

\* the claim of the locked row is written and committed; the task is returned
PollClaim(s) ==
    /\ sess[s].op = "poll" /\ sess[s].pc = "claim"
    /\ LET i == RowOf(tasks, sess[s].tid)
       IN /\ tasks' = [tasks EXCEPT ![i] = ClaimRow(@, sess[s].client)]
          /\ held' = [held EXCEPT ![sess[s].client] = sess[s].tid]
    /\ taskLock' = ReleasedTaskLocks(s, taskLock)
    /\ attempts' = [attempts EXCEPT ![sess[s].client] = 0]
    /\ sess' = [sess EXCEPT ![s] = Idle]
    /\ UNCHANGED << wfStatus, projStatus, counters, results, audits, wfLock,
                    resets, readied >>

----------------------------------------------------------------------------
(* Service operations on the task rows *)

Completed(ts) == {i \in DOMAIN ts : ts[i].status = "COMPLETED"}

\* mutant: a workflow of a single task is never complete
IsWorkflowCompleteOffByOne(ts) ==
    LET total_tasks == Len(ts)
        completed_tasks == Cardinality(Completed(ts))
    IN total_tasks > 1 /\ total_tasks = completed_tasks

\* DatabaseService.is_workflow_complete
IsWorkflowComplete(ts) ==
    LET total_tasks == Len(ts)
        completed_tasks == Cardinality(Completed(ts))
    IN total_tasks > 0 /\ total_tasks = completed_tasks

\* all(dep in completed_tasks for dep in task.dependencies)
AllDepsCompleted(ts, i) ==
    LET completed_tasks == {ts[j].step_id : j \in Completed(ts)}
    IN \A dep \in Range(ts[i].dependencies) : dep \in completed_tasks

\* mutant: the loop stops after the first task it marks READY
CheckAndDispatchFirstOnly(ts) ==
    LET ready == {i \in DOMAIN ts :
                    ts[i].status = "PENDING" /\ AllDepsCompleted(ts, i)}
    IN [i \in DOMAIN ts |->
          IF i \in ready /\ \A j \in ready : i <= j
          THEN [ts[i] EXCEPT !.status = "READY"]
          ELSE ts[i]]

\* DatabaseService.check_and_dispatch_ready_tasks: the rows after the loop
CheckAndDispatchReadyTasks(ts) ==
    [i \in DOMAIN ts |->
        IF ts[i].status = "PENDING" /\ AllDepsCompleted(ts, i)
        THEN [ts[i] EXCEPT !.status = "READY"]
        ELSE ts[i]]

\* mutant: the first UPDATE sets the status only and keeps the claim columns
ResetCompletedKeepClient(ts) ==
    [i \in DOMAIN ts |->
        IF ts[i].status = "COMPLETED"
        THEN [ts[i] EXCEPT !.status = "PENDING"]
        ELSE ts[i]]

\* first UPDATE of reset_tasks_for_rework: WHERE status = 'COMPLETED'
ResetCompleted(ts) ==
    [i \in DOMAIN ts |->
        IF ts[i].status = "COMPLETED"
        THEN [ts[i] EXCEPT !.status = "PENDING", !.client_id = NoClient,
                           !.started_at = FALSE, !.completed_at = FALSE]
        ELSE ts[i]]

\* mutant: the second UPDATE takes a task for initial when none of its
\* dependencies is PENDING
MarkInitialReadyNoPendingDeps(ts) ==
    [i \in DOMAIN ts |->
        IF \A j \in DOMAIN ts :
              ts[j].step_id \in Range(ts[i].dependencies) => ts[j].status # "PENDING"
        THEN [ts[i] EXCEPT !.status = "READY"]
        ELSE ts[i]]

\* second UPDATE of reset_tasks_for_rework: WHERE dependencies = []
MarkInitialReady(ts) ==
    [i \in DOMAIN ts |->
        IF ts[i].dependencies = << >>
        THEN [ts[i] EXCEPT !.status = "READY"]
        ELSE ts[i]]

\* DatabaseService.reset_tasks_for_rework: the task rows at its commit
ResetTasksForRework(ts) == MarkInitialReady(ResetCompleted(ts))

\* rows the two UPDATEs of reset_tasks_for_rework lock
ResetLockSet(ts) ==
    Completed(ts) \cup {i \in DOMAIN ts : ts[i].dependencies = << >>}

\* the task objects of a session after is_workflow_complete has selected the
\* rows of the workflow: the object save_task_result loaded and completed
\* keeps its attributes, the others are loaded from the rows
LoadTasks(ts, tid) ==
    [i \in DOMAIN ts |->
        IF ts[i].step_id = tid THEN "COMPLETED" ELSE ts[i].status]

\* the rows as the session's objects show them
Cached(ts, view) ==
    [i \in DOMAIN ts |-> [ts[i] EXCEPT !.status = view[i]]]

\* the commit after the loop: UPDATE ... SET status for the objects whose
\* status attribute the loop changed
Flush(ts, seen, changed) ==
    [i \in DOMAIN ts |->
        IF seen[i].status # changed[i].status
        THEN [ts[i] EXCEPT !.status = changed[i].status]
        ELSE ts[i]]

\* history: the rows that became READY between two committed versions
Readied(old, new, count) ==
    [i \in DOMAIN count |->
        IF old[i].status # "READY" /\ new[i].status = "READY"
           /\ count[i] < MaxReadied
        THEN count[i] + 1 ELSE count[i]]

----------------------------------------------------------------------------
(* POST /results: report_result *)

\* a worker posts the result of the task it holds; it posts again (up to its
\* retry limit) when the previous attempt has not been answered in time
ReportStart(c) ==
    /\ SomeSessionFree
    /\ held[c] # NoTask
    /\ attempts[c] < MaxAttempts
    /\ LET s == FreeSession
       IN sess' = [sess EXCEPT ![s] =
                [Idle EXCEPT !.op = "report", !.pc = "save", !.client = c,
                             !.tid = held[c]]]
    /\ attempts' = [attempts EXCEPT ![c] = @ + 1]
    /\ UNCHANGED << tasks, wfStatus, projStatus, counters, results, audits,
                    taskLock, wfLock, held, resets, readied >>

\* the handler answers (204 or 404); the request's session commits and closes
Respond(s, accepted) ==
    /\ sess' = [sess EXCEPT ![s] = Idle]
    /\ IF accepted /\ held[sess[s].client] = sess[s].tid
       THEN /\ held' = [held EXCEPT ![sess[s].client] = NoTask]
            /\ attempts' = [attempts EXCEPT ![sess[s].client] = 0]
       ELSE UNCHANGED << held, attempts >>

\* DatabaseService.save_task_result up to its commit: the row is locked, a
\* Result row is inserted, the task is COMPLETED
ReportSave(s) ==
    /\ sess[s].op = "report" /\ sess[s].pc = "save"
    /\ LET i == RowOf(tasks, sess[s].tid)
       IN IF i = 0
          THEN /\ Respond(s, FALSE)
               /\ UNCHANGED << tasks, results >>
          ELSE /\ FreeFor(s, i)
               /\ results' = [results EXCEPT ![i] = @ + 1]
               /\ tasks' = [tasks EXCEPT ![i].status = "COMPLETED",
                                         ![i].completed_at = TRUE]
               /\ sess' = [sess EXCEPT ![s].pc = "wf_check",
                                        ![s].wfSeen = wfStatus]
               /\ UNCHANGED << held, attempts >>
    /\ UNCHANGED << wfStatus, projStatus, counters, audits, taskLock, wfLock,
                    resets, readied >>

\* update_workflow_status_if_complete: the is_workflow_complete read, which
\* loads the task rows of the workflow into the session
ReportWfCheck(s) ==
    /\ sess[s].op = "report" /\ sess[s].pc = "wf_check"
    /\ sess' = [sess EXCEPT
                  ![s].pc = IF IsWorkflowComplete(tasks) THEN "wf_update"
                            ELSE "dispatch",
                  ![s].view = LoadTasks(tasks, sess[s].tid),
                  ![s].wfSeen = IF IsWorkflowComplete(tasks) THEN @ ELSE "NONE"]
    /\ UNCHANGED << tasks, wfStatus, projStatus, counters, results, audits,
                    taskLock, wfLock, held, attempts, resets, readied >>

\* update_workflow_status_if_complete: the workflow row is locked; it is set
\* COMPLETED and committed (then update_project_status_if_complete), or the
\* workflow object save_task_result loaded was COMPLETED already and the lock
\* stays with the session
ReportWfUpdate(s) ==
    /\ sess[s].op = "report" /\ sess[s].pc = "wf_update"
    /\ wfLock \in {0, s}
    /\ IF sess[s].wfSeen # "COMPLETED"
       THEN /\ wfStatus' = "COMPLETED"
            /\ projStatus' = IF projStatus = "NONE" THEN "NONE" ELSE "COMPLETED"
            /\ wfLock' = 0
            /\ taskLock' = ReleasedTaskLocks(s, taskLock)
       ELSE /\ wfLock' = s
            /\ UNCHANGED << wfStatus, projStatus, taskLock >>
    /\ sess' = [sess EXCEPT ![s].pc = "dispatch", ![s].wfSeen = "NONE"]
    /\ UNCHANGED << tasks, counters, results, audits, held, attempts, resets,
                    readied >>

\* check_and_dispatch_ready_tasks: every task row of the workflow is locked;
\* the loop runs over the session's objects.  With newly ready tasks it
\* commits; without, nothing is committed, the rows stay locked and the
\* following is_workflow_complete reads the same rows.
ReportDispatch(s) ==
    /\ sess[s].op = "report" /\ sess[s].pc = "dispatch"
    /\ \A i \in DOMAIN tasks : FreeFor(s, i)
    /\ LET all_tasks == Cached(tasks, sess[s].view)
           dispatched == CheckAndDispatchReadyTasks(all_tasks)
       IN IF dispatched # all_tasks
          THEN /\ tasks' = Flush(tasks, all_tasks, dispatched)
               /\ readied' = Readied(tasks, Flush(tasks, all_tasks, dispatched),
                                     readied)
               /\ taskLock' = ReleasedTaskLocks(s, taskLock)
               /\ wfLock' = ReleasedWfLock(s)
               /\ sess' = [sess EXCEPT ![s].pc = "complete_check",
                                       ![s].view = << >>]
               /\ UNCHANGED << held, attempts >>
          ELSE IF IsWorkflowComplete(tasks)
          THEN /\ taskLock' = [i \in DOMAIN taskLock |-> s]
               /\ sess' = [sess EXCEPT ![s].pc = "audit", ![s].view = << >>]
               /\ UNCHANGED << tasks, readied, wfLock, held, attempts >>
          ELSE /\ Respond(s, TRUE)
               /\ taskLock' = ReleasedTaskLocks(s, taskLock)
               /\ wfLock' = ReleasedWfLock(s)
               /\ UNCHANGED << tasks, readied >>
    /\ UNCHANGED << wfStatus, projStatus, counters, results, audits, resets >>

\* report_result: is_workflow_complete after a dispatch that committed
ReportCompleteCheck(s) ==
    /\ sess[s].op = "report" /\ sess[s].pc = "complete_check"
    /\ IF IsWorkflowComplete(tasks)
       THEN /\ sess' = [sess EXCEPT ![s].pc = "audit"]
            /\ UNCHANGED << held, attempts >>
       ELSE Respond(s, TRUE)
    /\ UNCHANGED << tasks, wfStatus, projStatus, counters, results, audits,
                    taskLock, wfLock, resets, readied >>

\* rows get_workflow_results returns
WorkflowResultCount ==
    LET RECURSIVE Sum(_)
        Sum(i) == IF i = 0 THEN 0 ELSE results[i] + Sum(i - 1)
    IN Sum(Len(results))

\* AgentManager.trigger_audit up to the saved report: the results are read,
\* AuditorAgent.run_audit yields a report (successful or not; an LLM error gives
\* an unsuccessful one), save_audit_report commits.  Without results the
\* synthetic failed report is saved and no reset follows.
ReportAudit(s, is_successful) ==
    /\ sess[s].op = "report" /\ sess[s].pc = "audit"
    /\ is_successful \/ resets < MaxResets
    /\ audits' = audits + 1
    /\ taskLock' = ReleasedTaskLocks(s, taskLock)
    /\ wfLock' = ReleasedWfLock(s)
    /\ IF WorkflowResultCount > 0 /\ ~is_successful
       THEN /\ sess' = [sess EXCEPT ![s].pc = "reset"]
            /\ UNCHANGED << held, attempts >>
       ELSE Respond(s, TRUE)
    /\ UNCHANGED << tasks, wfStatus, projStatus, counters, results, resets,
                    readied >>

\* the transaction of reset_tasks_for_rework, run by session s
ResetTransaction(s) ==
    /\ \A i \in ResetLockSet(tasks) : FreeFor(s, i)
    /\ wfLock \in {0, s}
    /\ tasks' = ResetTasksForRework(tasks)
    /\ readied' = Readied(tasks, ResetTasksForRework(tasks), readied)
    /\ taskLock' = ReleasedTaskLocks(s, taskLock)
    /\ wfLock' = 0
    /\ resets' = resets + 1

\* trigger_audit after an unsuccessful report: reset_tasks_for_rework
ReportReset(s) ==
    /\ sess[s].op = "report" /\ sess[s].pc = "reset"
    /\ ResetTransaction(s)
    /\ Respond(s, TRUE)
    /\ UNCHANGED << wfStatus, projStatus, counters, results, audits >>

----------------------------------------------------------------------------
(* POST /workflows/{id}/reset: reset_workflow *)

ResetWorkflow ==
    /\ wfStatus # "NONE"
    /\ resets < MaxResets
    /\ ResetTransaction(0)
    /\ UNCHANGED << wfStatus, projStatus, counters, results, audits, sess,
                    held, attempts >>

----------------------------------------------------------------------------
(* The coordination server with its workers *)

Next ==
    \/ Submit /\ UNCHANGED otherVars
    \/ \E c \in DOMAIN held,
          pref \in {NoTask} \cup {tasks[i].step_id : i \in DOMAIN tasks} :
            PollStart(c, pref) /\ UNCHANGED << polled, otherVars >>
    \/ \E s \in DOMAIN sess : PollPrefLock(s) /\ UNCHANGED << polled, otherVars >>
    \/ \E s \in DOMAIN sess : PollSelect(s) /\ UNCHANGED << polled, otherVars >>
    \/ \E s \in DOMAIN sess : PollLock(s) /\ UNCHANGED << polled, otherVars >>
    \/ \E s \in DOMAIN sess : PollClaim(s) /\ UNCHANGED << polled, otherVars >>
    \/ \E c \in DOMAIN held : ReportStart(c) /\ UNCHANGED << polled, otherVars >>
    \/ \E s \in DOMAIN sess : ReportSave(s) /\ UNCHANGED << polled, otherVars >>
    \/ \E s \in DOMAIN sess : ReportWfCheck(s) /\ UNCHANGED << polled, otherVars >>
    \/ \E s \in DOMAIN sess : ReportWfUpdate(s) /\ UNCHANGED << polled, otherVars >>
    \/ \E s \in DOMAIN sess : ReportDispatch(s) /\ UNCHANGED << polled, otherVars >>
    \/ \E s \in DOMAIN sess : ReportCompleteCheck(s) /\ UNCHANGED << polled, otherVars >>
    \/ \E s \in DOMAIN sess, ok \in BOOLEAN : ReportAudit(s, ok) /\ UNCHANGED << polled, otherVars >>
    \/ \E s \in DOMAIN sess : ReportReset(s) /\ UNCHANGED << polled, otherVars >>
    \/ ResetWorkflow /\ UNCHANGED << polled, otherVars >>

Spec == Init /\ [][Next]_vars

----------------------------------------------------------------------------
(* The claim scenario: a workflow is submitted, then NumPollers workers poll
   it concurrently, once each; nothing else runs. *)

InitClaim ==
    /\ InitStore
    /\ sess = [s \in Pollers |-> Idle]
    /\ held = [c \in Pollers |-> NoTask]
    /\ attempts = [c \in Pollers |-> 0]
    /\ polled = [c \in Pollers |-> [state |-> "idle", lost |-> FALSE]]
    /\ InitFileAccess
    /\ InitFileLocks
    /\ InitSubmit
    /\ InitFaults

\* history of the poll handled by session s: its outcome when it answers, and
\* whether a row of its snapshot failed the re-check after the lock
PolledAfter(s) ==
    LET c == sess[s].client
    IN polled' = [polled EXCEPT ![c] =
          [state |-> IF sess'[s].op = "idle"
                     THEN (IF held'[c] # NoTask THEN "task" ELSE "null")
                     ELSE @.state,
           lost |-> \/ @.lost
                    \/ /\ sess[s].pc = "lock" /\ sess'[s].pc = "lock"
                       /\ sess[s].cand # << >>
                       /\ sess'[s].cand = Tail(sess[s].cand)]]

NextClaim ==
    \/ Submit /\ UNCHANGED otherVars
    \/ \E c \in DOMAIN held,
          pref \in {NoTask} \cup {tasks[i].step_id : i \in DOMAIN tasks} :
            /\ wfStatus # "NONE"
            /\ polled[c].state = "idle"
            /\ PollStart(c, pref)
            /\ polled' = [polled EXCEPT ![c].state = "polling"]
            /\ UNCHANGED otherVars
    \/ \E s \in DOMAIN sess : PollPrefLock(s) /\ PolledAfter(s) /\ UNCHANGED otherVars
    \/ \E s \in DOMAIN sess : PollSelect(s) /\ PolledAfter(s) /\ UNCHANGED otherVars
    \/ \E s \in DOMAIN sess : PollLock(s) /\ PolledAfter(s) /\ UNCHANGED otherVars
    \/ \E s \in DOMAIN sess : PollClaim(s) /\ PolledAfter(s) /\ UNCHANGED otherVars

SpecClaim == InitClaim /\ [][NextClaim]_vars

----------------------------------------------------------------------------
(* File lock records: DatabaseService.acquire_file_lock, release_file_lock and
   cleanup_expired_file_locks.  Every call runs in a session of its own; the
   SELECT of _can_acquire_file_lock takes no lock. *)

TimeoutMinutes == {0, 30}     \* 0: the record never expires

\* the FileAccessORM object acquire_file_lock adds; expires_at is "never",
\* or "future" until the time it names has passed ("past")
FileAccessRow(file_path, client_id, access_type, timeout_minutes) ==
    [file_path |-> file_path, client_id |-> client_id,
     access_type |-> access_type,
     expires_at |-> IF timeout_minutes > 0 THEN "future" ELSE "never",
     is_active |-> TRUE]

\* active_locks_stmt: WHERE file_path = :p AND is_active AND
\* (expires_at IS NULL OR expires_at > now)
ExistingLocks(rows, file_path) ==
    {i \in DOMAIN rows :
        /\ rows[i].file_path = file_path
        /\ rows[i].is_active
        /\ rows[i].expires_at \in {"never", "future"}}

\* DatabaseService._can_acquire_file_lock: the loop over existing_locks
CanAcquireFileLock(rows, file_path, access_type) ==
    \A i \in ExistingLocks(rows, file_path) :
        /\ ~(rows[i].access_type = "exclusive" \/ access_type = "exclusive")
        /\ ~(rows[i].access_type = "write" \/ access_type = "write")

\* UniqueConstraint('file_path', 'access_type') of file_access: the INSERT
\* fails when a row with the same path and access type exists, active or not
UqFileExclusiveAccess(rows, file_path, access_type) ==
    \A i \in DOMAIN rows :
        ~(rows[i].file_path = file_path /\ rows[i].access_type = access_type)

\* a client calls acquire_file_lock
AcquireFileLockStart(c, file_path, access_type, timeout_minutes) ==
    /\ calls[c].op = "idle"
    /\ Len(file_access)
         + Cardinality({d \in DOMAIN calls : calls[d].op = "acquire"}) < MaxRecords
    /\ calls' = [calls EXCEPT ![c] =
            [op |-> "acquire", pc |-> "check", file_path |-> file_path,
             access_type |-> access_type, timeout_minutes |-> timeout_minutes,
             returned |-> "none"]]
    /\ UNCHANGED file_access

\* the call returns to the client
FileCallReturns(c, value) ==
    calls' = [calls EXCEPT ![c] = [NoCall EXCEPT !.returned = value]]

\* acquire_file_lock: the check for conflicting locks
AcquireFileLockCheck(c) ==
    /\ calls[c].op = "acquire" /\ calls[c].pc = "check"
    /\ IF CanAcquireFileLock(file_access, calls[c].file_path, calls[c].access_type)
       THEN calls' = [calls EXCEPT ![c].pc = "insert"]
       ELSE FileCallReturns(c, "false")
    /\ UNCHANGED file_access

\* acquire_file_lock: the record is added and committed; an IntegrityError is
\* caught, the session rolled back and False returned
AcquireFileLockInsert(c) ==
    /\ calls[c].op = "acquire" /\ calls[c].pc = "insert"
    /\ IF UqFileExclusiveAccess(file_access, calls[c].file_path, calls[c].access_type)
       THEN /\ file_access' = Append(file_access,
                    FileAccessRow(calls[c].file_path, c, calls[c].access_type,
                                  calls[c].timeout_minutes))
            /\ FileCallReturns(c, "true")
       ELSE /\ FileCallReturns(c, "false")
            /\ UNCHANGED file_access

\* rows the UPDATE of release_file_lock matches; access_type "" is None
ReleaseConditions(rows, file_path, client_id, access_type) ==
    {i \in DOMAIN rows :
        /\ rows[i].file_path = file_path
        /\ rows[i].client_id = client_id
        /\ rows[i].is_active
        /\ access_type # "" => rows[i].access_type = access_type}

\* DatabaseService.release_file_lock: one UPDATE, committed
ReleaseFileLock(c, file_path, access_type) ==
    /\ calls[c].op = "idle"
    /\ LET released == ReleaseConditions(file_access, file_path, c, access_type)
       IN /\ file_access' = [i \in DOMAIN file_access |->
                                IF i \in released
                                THEN [file_access[i] EXCEPT !.is_active = FALSE]
                                ELSE file_access[i]]
          /\ FileCallReturns(c, IF released # {} THEN "true" ELSE "false")

\* DatabaseService.cleanup_expired_file_locks
CleanupExpiredFileLocks ==
    /\ \E i \in DOMAIN file_access :
          file_access[i].is_active /\ file_access[i].expires_at = "past"
    /\ file_access' = [i \in DOMAIN file_access |->
                          IF file_access[i].is_active
                             /\ file_access[i].expires_at = "past"
                          THEN [file_access[i] EXCEPT !.is_active = FALSE]
                          ELSE file_access[i]]
    /\ UNCHANGED calls

\* time passes the expires_at of a record
RecordExpires(i) ==
    /\ file_access[i].expires_at = "future"
    /\ file_access' = [file_access EXCEPT ![i].expires_at = "past"]
    /\ UNCHANGED calls

NextRecord ==
    \/ \E c \in DOMAIN calls, file_path \in FilePaths, access_type \in AccessTypes,
          timeout_minutes \in TimeoutMinutes :
            /\ AcquireFileLockStart(c, file_path, access_type, timeout_minutes)
            /\ UNCHANGED << storeVars, submitVars, faultVars, lockVars >>
    \/ \E c \in DOMAIN calls : AcquireFileLockCheck(c) /\ UNCHANGED << storeVars, submitVars, faultVars, lockVars >>
    \/ \E c \in DOMAIN calls : AcquireFileLockInsert(c) /\ UNCHANGED << storeVars, submitVars, faultVars, lockVars >>
    \/ \E c \in DOMAIN calls, file_path \in FilePaths,
          access_type \in AccessTypes \cup {""} :
            /\ ReleaseFileLock(c, file_path, access_type)
            /\ UNCHANGED << storeVars, submitVars, faultVars, lockVars >>
    \/ CleanupExpiredFileLocks /\ UNCHANGED << storeVars, submitVars, faultVars, lockVars >>
    \/ \E i \in DOMAIN file_access : RecordExpires(i) /\ UNCHANGED << storeVars, submitVars, faultVars, lockVars >>

SpecRecord == Init /\ [][NextRecord]_vars

----------------------------------------------------------------------------
(* The in-process file access coordinator: FileAccessManager.acquire_file_lock
   behind file_lock, and WorkerAgent._manage_task_file_locks.

   The host is POSIX: the OS lock is fcntl.flock on the opened file, which
   the code calls without LOCK_NB, so the call returns when the lock can be
   granted and blocks the thread, and with it the event loop of the process,
   until then.  Between two awaits a coroutine runs without interleaving
   with the other coroutines of its process. *)

\* the process a coroutine runs in
ProcOf(k) == ((k - 1) % NumProcs) + 1

\* a coroutine of the process is inside a blocking flock call
Frozen(p) == \E j \in DOMAIN cors : ProcOf(j) = p /\ cors[j].pc = "flock"

\* mutant: any registered lock of the path conflicts, also read with read
CanAcquireLockAnyConflict(active_locks, file_path, access_type) ==
    file_path \notin DOMAIN active_locks

\* FileAccessManager._can_acquire_lock: the loop over _active_locks
CanAcquireLock(active_locks, file_path, access_type) ==
    \A existing_path \in DOMAIN active_locks :
        existing_path = file_path =>
            LET existing_type == active_locks[existing_path].access_type
            IN /\ ~(existing_type = "exclusive" \/ access_type = "exclusive")
               /\ ~(existing_type = "write" \/ access_type = "write")

\* FileAccessManager._get_file_mode
GetFileMode(access_type) ==
    IF access_type \in {"write", "exclusive"} THEN "a+" ELSE "r"

\* mutant: every access type takes the shared lock
GetFcntlLockTypeShared(access_type) == "LOCK_SH"

\* FileAccessManager._get_fcntl_lock_type
GetFcntlLockType(access_type) ==
    IF access_type = "read" THEN "LOCK_SH" ELSE "LOCK_EX"

\* FileAccessManager._register_lock: one entry per path
RegisterLock(m, file_path, access_type, client_id) ==
    [active_locks |->
        [f \in DOMAIN m.active_locks \cup {file_path} |->
            IF f = file_path
            THEN [access_type |-> access_type, client_id |-> client_id]
            ELSE m.active_locks[f]],
     lock_registry |-> m.lock_registry \cup {<< file_path, access_type >>}]

\* FileAccessManager._unregister_lock: the entry of the path is deleted
UnregisterLock(m, file_path, access_type) ==
    [active_locks |->
        [f \in DOMAIN m.active_locks \ {file_path} |-> m.active_locks[f]],
     lock_registry |-> m.lock_registry \ {<< file_path, access_type >>}]

\* flock(2): the lock can be granted when no other open file description of
\* the file holds a conflicting lock
FlockGrantable(cs, k, file_path, lock_type) ==
    \A j \in DOMAIN cs \ {k} :
        cs[j].file_path = file_path =>
            IF lock_type = "LOCK_SH"
            THEN cs[j].handle # "LOCK_EX"
            ELSE cs[j].handle \notin {"LOCK_SH", "LOCK_EX"}

\* the OS lock is taken and the lock registered.  file_lock's caller runs its
\* body with the handle; _manage_task_file_locks only appends the handle to a
\* list, which ends its async with block: the lock is released and
\* unregistered at once and the task body starts
LockGranted(k, c) ==
    LET p == ProcOf(k)
        lock_type == GetFcntlLockType(c.access_type)
        registered == RegisterLock(managers[p], c.file_path, c.access_type, k)
    IN IF c.kind = "task"
       THEN /\ cors' = [cors EXCEPT ![k] =
                    [c EXCEPT !.pc = "body", !.handle = "CLOSED",
                              !.waited = 0, !.raised = "none"]]
            /\ managers' = [managers EXCEPT ![p] =
                    UnregisterLock(registered, c.file_path, c.access_type)]
       ELSE /\ cors' = [cors EXCEPT ![k] =
                    [c EXCEPT !.pc = "held", !.handle = lock_type,
                              !.waited = 0]]
            /\ managers' = [managers EXCEPT ![p] = registered]

\* the acquisition raised: file_lock's caller gets the exception,
\* _manage_task_file_locks prints it and the task body starts without lock
LockFailed(k, c, error) ==
    cors' = [cors EXCEPT ![k] =
        [c EXCEPT !.pc = IF c.kind = "task" THEN "body" ELSE "raised",
                  !.handle = "CLOSED", !.waited = 0, !.raised = error]]

\* one pass of the while loop of acquire_file_lock, up to its next await
LockLoop(k, c) ==
    LET p == ProcOf(k)
    IN IF c.waited >= TimeoutTicks
       THEN \* the time is up: FileLockTimeout, then the finally block
            /\ LockFailed(k, c, "FileLockTimeout")
            /\ managers' = [managers EXCEPT ![p] =
                    UnregisterLock(@, c.file_path, c.access_type)]
            /\ UNCHANGED exists
       ELSE IF GetFileMode(c.access_type) = "r" /\ ~exists[c.file_path]
       THEN \* open raises FileNotFoundError: asyncio.sleep(0.1)
            /\ cors' = [cors EXCEPT ![k] =
                    [c EXCEPT !.pc = "retry", !.waited = @ + 1]]
            /\ UNCHANGED << managers, exists >>
       ELSE /\ exists' = [exists EXCEPT ![c.file_path] = TRUE]
            /\ IF FlockGrantable(cors, k, c.file_path,
                                 GetFcntlLockType(c.access_type))
               THEN LockGranted(k, c)
               ELSE /\ cors' = [cors EXCEPT ![k] =
                            [c EXCEPT !.pc = "flock", !.handle = "OPEN"]]
                    /\ UNCHANGED managers

\* acquire_file_lock from its call to its first await
AcquireLock(k, c) ==
    IF ~CanAcquireLock(managers[ProcOf(k)].active_locks, c.file_path,
                       c.access_type)
    THEN /\ LockFailed(k, c, "FileLockError")
         /\ UNCHANGED << managers, exists >>
    ELSE LockLoop(k, c)

\* a coroutine enters async with file_lock(file_path, access_type)
FileLock(k, file_path, access_type) ==
    /\ cors[k].pc = "idle" /\ ~Frozen(ProcOf(k))
    /\ AcquireLock(k, [NoCor EXCEPT !.kind = "lock", !.file_path = file_path,
                                    !.access_type = access_type])

\* WorkerAgent.execute_task of a task that declares file_path with
\* access_type: _manage_task_file_locks up to its yield
ExecuteTask(k, file_path, access_type) ==
    /\ cors[k].pc = "idle" /\ ~Frozen(ProcOf(k))
    /\ LET c == [NoCor EXCEPT !.kind = "task", !.file_path = file_path,
                              !.access_type = access_type]
       IN IF ~exists[file_path]
          THEN /\ cors' = [cors EXCEPT ![k] =
                       [c EXCEPT !.pc = "body", !.raised = "skipped"]]
               /\ UNCHANGED << managers, exists >>
          ELSE AcquireLock(k, c)

\* the backoff sleep is over: the loop goes on
LockRetry(k) ==
    /\ cors[k].pc = "retry" /\ ~Frozen(ProcOf(k))
    /\ LockLoop(k, cors[k])

\* the blocked flock call returns
FlockReturns(k) ==
    /\ cors[k].pc = "flock"
    /\ FlockGrantable(cors, k, cors[k].file_path,
                      GetFcntlLockType(cors[k].access_type))
    /\ LockGranted(k, cors[k])
    /\ UNCHANGED exists

\* time passes while the flock call is blocked
FlockBlocked(k) ==
    /\ cors[k].pc = "flock"
    /\ ~FlockGrantable(cors, k, cors[k].file_path,
                       GetFcntlLockType(cors[k].access_type))
    /\ cors[k].waited < TimeoutTicks + 2
    /\ cors' = [cors EXCEPT ![k].waited = @ + 1]
    /\ UNCHANGED << managers, exists >>

\* the body of the async with ends: the finally block of acquire_file_lock
FileLockExit(k) ==
    /\ cors[k].pc = "held" /\ ~Frozen(ProcOf(k))
    /\ managers' = [managers EXCEPT ![ProcOf(k)] =
            UnregisterLock(@, cors[k].file_path, cors[k].access_type)]
    /\ cors' = [cors EXCEPT ![k] = NoCor]
    /\ UNCHANGED exists

\* file_lock's caller has handled the exception
FileLockRaised(k) ==
    /\ cors[k].pc = "raised" /\ ~Frozen(ProcOf(k))
    /\ cors' = [cors EXCEPT ![k] = NoCor]
    /\ UNCHANGED << managers, exists >>

\* execute_task returns: the task execution context exits
ExecuteTaskReturns(k) ==
    /\ cors[k].pc = "body" /\ ~Frozen(ProcOf(k))
    /\ cors' = [cors EXCEPT ![k] = NoCor]
    /\ UNCHANGED << managers, exists >>

\* a file is created on disk (a worker's action writes a deliverable)
FileCreated(f) ==
    /\ ~exists[f]
    /\ exists' = [exists EXCEPT ![f] = TRUE]
    /\ UNCHANGED << managers, cors >>

NextLock ==
    \/ \E k \in DOMAIN cors, f \in FilePaths, a \in AccessTypes :
          FileLock(k, f, a) /\ UNCHANGED << storeVars, submitVars, faultVars, recordVars >>
    \/ \E k \in DOMAIN cors, f \in FilePaths, a \in AccessTypes :
          ExecuteTask(k, f, a) /\ UNCHANGED << storeVars, submitVars, faultVars, recordVars >>
    \/ \E k \in DOMAIN cors : LockRetry(k) /\ UNCHANGED << storeVars, submitVars, faultVars, recordVars >>
    \/ \E k \in DOMAIN cors : FlockReturns(k) /\ UNCHANGED << storeVars, submitVars, faultVars, recordVars >>
    \/ \E k \in DOMAIN cors : FlockBlocked(k) /\ UNCHANGED << storeVars, submitVars, faultVars, recordVars >>
    \/ \E k \in DOMAIN cors : FileLockExit(k) /\ UNCHANGED << storeVars, submitVars, faultVars, recordVars >>
    \/ \E k \in DOMAIN cors : FileLockRaised(k) /\ UNCHANGED << storeVars, submitVars, faultVars, recordVars >>
    \/ \E k \in DOMAIN cors : ExecuteTaskReturns(k) /\ UNCHANGED << storeVars, submitVars, faultVars, recordVars >>
    \/ \E f \in FilePaths : FileCreated(f) /\ UNCHANGED << storeVars, submitVars, faultVars, recordVars >>

SpecLock == Init /\ [][NextLock]_vars

----------------------------------------------------------------------------
(* The submit scenario: POST /tasks handlers run concurrently, each with its
   own session and transaction.  SequentialIDGenerator._get_next_id is a
   SELECT ... FOR UPDATE of the counter row followed by an INSERT (no row
   found) or an UPDATE; get_db_session commits the session when the handler
   returns and rolls it back when it raises.  The project folder, the
   project_path update and the read of the saved graph that follow a
   successful save are not modelled. *)

\* a task that depends on itself
PlanSelf == << PlanTask(StepA, <<StepA>>, "analyst") >>

\* two tasks that depend on each other
PlanCycle == << PlanTask(StepA, <<StepB>>, "analyst"),
                PlanTask(StepB, <<StepA>>, "researcher") >>

SubmitPlans == {PlanSingle, PlanChain, PlanForward, PlanDangling, PlanSelf,
                PlanCycle}

\* the variables of the single-workflow scenarios that a submit handler of
\* this scenario leaves alone
singleVars == << tasks, wfStatus, projStatus, results, audits, taskLock,
                 wfLock, sess, held, attempts, resets, readied, polled >>

\* mutant: a session goes on executing statements after one of them failed
SessionUsableAfterError(session) == TRUE

\* the ORM session refuses statements after an error in a flush or in a
\* statement of its transaction, until it is rolled back
SessionUsable(session) == session = "active"

\* mutant: id_counters.counter_type without its unique index
UqCounterTypeNone(committed, pending) == "insert"

\* unique index of id_counters.counter_type, met by the INSERT of a counter
\* row: committed is the committed current_value (0: no row), pending tells
\* whether another transaction has inserted the row and not yet ended
UqCounterType(committed, pending) ==
    IF committed # 0 THEN "violation"
    ELSE IF pending THEN "wait"
    ELSE "insert"

\* row locks of handler u released by its commit or rollback
ReleasedCounterLocks(u) ==
    [k \in CounterTypes |-> IF counterLock[k] = u THEN 0 ELSE counterLock[k]]

\* the handler's locals after _get_next_id has advanced counter k from
\* current: create_project adds the project row, save_task_graph adds the
\* workflow row, and its loop adds one row per task
AfterNextId(r, u, k, current) ==
    LET id == GetNextId(current)
        saved == SaveTaskGraph(r.graph, current)
        workflow_id == r.wfs[Len(r.wfs)].workflow_id
    IN IF k = "project"
       THEN [r EXCEPT !.cval.project = id, !.pc = "workflow",
                      !.phase = "select", !.saves = @ + 1]
       ELSE IF k = "workflow"
       THEN [r EXCEPT !.cval.workflow = id, !.pc = "task", !.phase = "select",
                      !.wfs = Append(@, [workflow_id |-> id,
                                         by |-> << u, r.saves >>])]
       ELSE [r EXCEPT !.cval.task = saved.counter, !.pc = "return",
                      !.phase = "select",
                      !.rows = @ \o [i \in DOMAIN saved.rows |->
                          [step_id |-> saved.rows[i].step_id,
                           workflow_id |-> workflow_id,
                           dependencies |-> saved.rows[i].dependencies,
                           assigned_agent |-> saved.rows[i].assigned_agent,
                           status |-> saved.rows[i].status,
                           by |-> << u, r.saves >>]]]

\* POST /tasks arrives; the LLM gateway answers with a plan or raises on every
\* retry.  plan_and_save_task up to its first statement on the store:
\* create_project for a valid plan, save_task_graph of the fallback graph
\* in the except branch otherwise.
SubmitTask(u, plan, llmOk) ==
    /\ subs[u].pc = "idle"
    /\ \A v \in DOMAIN subs : v < u => subs[v].pc # "idle"
    /\ LET planned == llmOk /\ ValidateDependencies(plan)
       IN subs' = [subs EXCEPT ![u] =
            [NoSubmit EXCEPT
               !.plan = plan, !.llmOk = llmOk,
               !.graph = IF planned THEN MarkInitialTasksReady(plan)
                         ELSE CreateFallbackWorkflow,
               !.fallback = ~planned,
               !.saves = IF planned THEN 0 ELSE 1,
               !.pc = IF planned THEN "project" ELSE "workflow"]]
    /\ UNCHANGED << counters, counterLock, task_graphs, task_steps, advanced,
                    faults >>

\* a statement of create_project or save_task_graph raises.  In the try block
\* of plan_and_save_task the except branch goes on to save the fallback graph
\* with the same session; in the except branch the exception leaves
\* plan_and_save_task, submit_task answers 500 and get_db_session rolls back.
Raise(u) ==
    LET r == subs[u]
        failed == IF r.pc \in {"workflow", "task"} THEN r.failed \cup {r.saves}
                  ELSE r.failed
    IN IF r.fallback
       THEN /\ subs' = [subs EXCEPT ![u] =
                   [r EXCEPT !.pc = "done", !.phase = "select",
                             !.failed = failed, !.session = "inactive",
                             !.ins = {}, !.response = "500"]]
            /\ counterLock' = ReleasedCounterLocks(u)
       ELSE /\ subs' = [subs EXCEPT ![u] =
                   [r EXCEPT !.pc = "workflow", !.phase = "select",
                             !.fallback = TRUE,
                             !.graph = CreateFallbackWorkflow,
                             !.saves = @ + 1, !.failed = failed,
                             !.session = "inactive"]]
            /\ UNCHANGED counterLock

\* _get_next_id: SELECT ... FOR UPDATE of the counter row.  The row the
\* transaction has inserted or locked is read back; a committed row is locked
\* (after the wait for its holder) and advanced; without a row the INSERT
\* follows.
NextIdSelect(u) ==
    LET r == subs[u]
        k == r.pc
    IN /\ r.pc \in CounterTypes /\ r.phase = "select"
       /\ IF ~SessionUsable(r.session)
          THEN Raise(u)
          ELSE IF k \in r.ins \/ counterLock[k] = u
          THEN /\ subs' = [subs EXCEPT ![u] = AfterNextId(r, u, k, r.cval[k])]
               /\ UNCHANGED counterLock
          ELSE IF counters[k] = 0
          THEN /\ subs' = [subs EXCEPT ![u].phase = "insert"]
               /\ UNCHANGED counterLock
          ELSE /\ counterLock[k] = 0
               /\ counterLock' = [counterLock EXCEPT ![k] = u]
               /\ subs' = [subs EXCEPT ![u] = AfterNextId(r, u, k, counters[k])]
       /\ UNCHANGED << counters, task_graphs, task_steps, advanced, faults >>

\* _get_next_id: session.add(counter) and flush, the INSERT of the counter row
NextIdInsert(u) ==
    LET r == subs[u]
        k == r.pc
        pending == \E v \in DOMAIN subs : v # u /\ k \in subs[v].ins
        outcome == UqCounterType(counters[k], pending)
    IN /\ r.pc \in CounterTypes /\ r.phase = "insert"
       /\ outcome # "wait"
       /\ IF outcome = "violation"
          THEN Raise(u)
          ELSE /\ subs' = [subs EXCEPT ![u] =
                      AfterNextId([r EXCEPT !.ins = @ \cup {k}], u, k, 0)]
               /\ UNCHANGED counterLock
       /\ UNCHANGED << counters, task_graphs, task_steps, advanced, faults >>

\* plan_and_save_task returns the workflow id, submit_task answers 200 and
\* get_db_session commits the transaction
SubmitReturns(u) ==
    LET r == subs[u]
    IN /\ r.pc = "return"
       /\ task_graphs' = task_graphs \o r.wfs
       /\ task_steps' = task_steps \o r.rows
       /\ counters' = [k \in CounterTypes |->
                          IF k \in r.ins \/ counterLock[k] = u THEN r.cval[k]
                          ELSE counters[k]]
       /\ advanced' = advanced \cup {r.wfs[i].by : i \in DOMAIN r.wfs}
       /\ counterLock' = ReleasedCounterLocks(u)
       /\ subs' = [subs EXCEPT ![u] =
               [r EXCEPT !.pc = "done", !.ins = {}, !.response = "200"]]
       /\ UNCHANGED faults

\* the database fails a statement of create_project or save_task_graph
SaveFails(u) ==
    /\ faults < MaxFaults
    /\ subs[u].pc \in CounterTypes
    /\ subs[u].session = "active"
    /\ Raise(u)
    /\ faults' = faults + 1
    /\ UNCHANGED << counters, task_graphs, task_steps, advanced >>

\* the server restarts: the transactions of the handlers in flight are lost
Restart ==
    /\ faults < MaxFaults
    /\ \E u \in DOMAIN subs : subs[u].pc \notin {"idle", "done"}
    /\ subs' = [u \in DOMAIN subs |->
                  IF subs[u].pc \in {"idle", "done"} THEN subs[u]
                  ELSE [subs[u] EXCEPT !.pc = "done", !.phase = "select",
                                       !.ins = {}]]
    /\ counterLock' = [k \in CounterTypes |-> 0]
    /\ faults' = faults + 1
    /\ UNCHANGED << counters, task_graphs, task_steps, advanced >>

NextSubmit ==
    \/ \E u \in DOMAIN subs, plan \in SubmitPlans, llmOk \in BOOLEAN :
          SubmitTask(u, plan, llmOk) /\ UNCHANGED << singleVars, fileVars, answers >>
    \/ \E u \in DOMAIN subs : NextIdSelect(u) /\ UNCHANGED << singleVars, fileVars, answers >>
    \/ \E u \in DOMAIN subs : NextIdInsert(u) /\ UNCHANGED << singleVars, fileVars, answers >>
    \/ \E u \in DOMAIN subs : SubmitReturns(u) /\ UNCHANGED << singleVars, fileVars, answers >>
    \/ \E u \in DOMAIN subs : SaveFails(u) /\ UNCHANGED << singleVars, fileVars, answers >>
    \/ Restart /\ UNCHANGED << singleVars, fileVars, answers >>

SpecSubmit == Init /\ [][NextSubmit]_vars

----------------------------------------------------------------------------
(* Failures inside the poll and result handlers: a statement of the handler's
   session raises (the connection is lost, the database rejects it).  At most
   MaxFaults statements fail.  answers records what each worker was last
   answered: "task" or "null" for a poll, "204" or "404" for a result. *)

\* the answer of the handler of session s, when this step ends it
AnsweredAfter(s) ==
    LET c == sess[s].client
    IN answers' =
          IF sess'[s].op # "idle" THEN answers
          ELSE (c :> (IF sess[s].op = "poll"
                      THEN (IF held'[c] # NoTask THEN "task" ELSE "null")
                      ELSE (IF sess[s].pc = "save" THEN "404" ELSE "204")))
               @@ answers

\* get_and_claim_ready_task: a statement before the commit of the claim raises.
\* except Exception: rollback, return None; the endpoint goes on to the call
\* without a preferred task, or answers null
PollFails(s) ==
    /\ faults < MaxFaults
    /\ sess[s].op = "poll"
    /\ sess[s].pc \in {"pref_lock", "select", "lock", "claim"}
    /\ sess' = [sess EXCEPT ![s] =
                  IF sess[s].call = 1
                  THEN [@ EXCEPT !.pc = "select", !.call = 2, !.cand = << >>]
                  ELSE Idle]
    /\ taskLock' = ReleasedTaskLocks(s, taskLock)
    /\ faults' = faults + 1
    /\ UNCHANGED << tasks, wfStatus, projStatus, counters, results, audits,
                    wfLock, held, attempts, resets, readied >>

\* get_and_claim_ready_task: the claim is committed, then the read of the
\* workflow or of the project, or the construction of the TaskStep, raises.
\* except Exception: rollback (of nothing), return None: the endpoint answers null
PollClaimFails(s) ==
    /\ faults < MaxFaults
    /\ sess[s].op = "poll" /\ sess[s].pc = "claim"
    /\ LET i == RowOf(tasks, sess[s].tid)
       IN tasks' = [tasks EXCEPT ![i] = ClaimRow(@, sess[s].client)]
    /\ taskLock' = ReleasedTaskLocks(s, taskLock)
    /\ sess' = [sess EXCEPT ![s] = Idle]
    /\ faults' = faults + 1
    /\ UNCHANGED << wfStatus, projStatus, counters, results, audits, wfLock,
                    held, attempts, resets, readied >>

\* save_task_result: a statement up to and including its commit raises.
\* except Exception: rollback, return False; report_result answers 404
ReportSaveFails(s) ==
    /\ faults < MaxFaults
    /\ sess[s].op = "report" /\ sess[s].pc = "save"
    /\ Respond(s, FALSE)
    /\ faults' = faults + 1
    /\ UNCHANGED << tasks, wfStatus, projStatus, counters, results, audits,
                    taskLock, wfLock, resets, readied >>

\* trigger_audit: get_workflow_results comes back empty (it swallows its own
\* errors) or AuditorAgent.run_audit raises before its try block (the LLM client
\* cannot be created).  except Exception: the synthetic failed report is saved
\* and returned; reset_tasks_for_rework is not called
AuditRaises(s) ==
    /\ faults < MaxFaults
    /\ sess[s].op = "report" /\ sess[s].pc = "audit"
    /\ audits' = audits + 1
    /\ taskLock' = ReleasedTaskLocks(s, taskLock)
    /\ wfLock' = ReleasedWfLock(s)
    /\ Respond(s, TRUE)
    /\ faults' = faults + 1
    /\ UNCHANGED << tasks, wfStatus, projStatus, counters, results, resets,
                    readied >>

\* the id save_task_graph gave the workflow, and an id that no workflow has
WorkflowId == 1
UnknownWorkflowId == 2

\* reset_workflow: the UPDATEs of reset_tasks_for_rework match the rows of the
\* workflow named, or no row; it commits and returns True in both cases, and the
\* handler answers 204 (404 only for False).  answers[0] records the request of
\* the administrator and its answer
ResetWorkflowRequest(workflow_id) ==
    /\ IF workflow_id = WorkflowId
       THEN ResetWorkflow
       ELSE UNCHANGED << tasks, wfStatus, projStatus, counters, results, audits,
                         taskLock, wfLock, sess, held, attempts, resets,
                         readied >>
    /\ answers' = (0 :> [workflow_id |-> workflow_id, code |-> "204"]) @@ answers

NextFault ==
    \/ Submit /\ Len(tasks') <= MaxFaultTasks /\ UNCHANGED otherVars
    \/ \E c \in DOMAIN held,
          pref \in {NoTask} \cup {tasks[i].step_id : i \in DOMAIN tasks} :
            PollStart(c, pref) /\ UNCHANGED << polled, otherVars >>
    \/ \E s \in DOMAIN sess :
          PollPrefLock(s) /\ AnsweredAfter(s)
            /\ UNCHANGED << polled, fileVars, submitVars, faults >>
    \/ \E s \in DOMAIN sess :
          PollSelect(s) /\ AnsweredAfter(s)
            /\ UNCHANGED << polled, fileVars, submitVars, faults >>
    \/ \E s \in DOMAIN sess :
          PollLock(s) /\ AnsweredAfter(s)
            /\ UNCHANGED << polled, fileVars, submitVars, faults >>
    \/ \E s \in DOMAIN sess :
          PollClaim(s) /\ AnsweredAfter(s)
            /\ UNCHANGED << polled, fileVars, submitVars, faults >>
    \/ \E s \in DOMAIN sess :
          PollFails(s) /\ AnsweredAfter(s)
            /\ UNCHANGED << polled, fileVars, submitVars >>
    \/ \E s \in DOMAIN sess :
          PollClaimFails(s) /\ AnsweredAfter(s)
            /\ UNCHANGED << polled, fileVars, submitVars >>
    \/ \E c \in DOMAIN held : ReportStart(c) /\ UNCHANGED << polled, otherVars >>
    \/ \E s \in DOMAIN sess :
          ReportSave(s) /\ AnsweredAfter(s)
            /\ UNCHANGED << polled, fileVars, submitVars, faults >>
    \/ \E s \in DOMAIN sess :
          ReportSaveFails(s) /\ AnsweredAfter(s)
            /\ UNCHANGED << polled, fileVars, submitVars >>
    \/ \E s \in DOMAIN sess :
          ReportWfCheck(s) /\ AnsweredAfter(s)
            /\ UNCHANGED << polled, fileVars, submitVars, faults >>
    \/ \E s \in DOMAIN sess :
          ReportWfUpdate(s) /\ AnsweredAfter(s)
            /\ UNCHANGED << polled, fileVars, submitVars, faults >>
    \/ \E s \in DOMAIN sess :
          ReportDispatch(s) /\ AnsweredAfter(s)
            /\ UNCHANGED << polled, fileVars, submitVars, faults >>
    \/ \E s \in DOMAIN sess :
          ReportCompleteCheck(s) /\ AnsweredAfter(s)
            /\ UNCHANGED << polled, fileVars, submitVars, faults >>
    \/ \E s \in DOMAIN sess, ok \in BOOLEAN :
          ReportAudit(s, ok) /\ AnsweredAfter(s)
            /\ UNCHANGED << polled, fileVars, submitVars, faults >>
    \/ \E s \in DOMAIN sess :
          AuditRaises(s) /\ AnsweredAfter(s)
            /\ UNCHANGED << polled, fileVars, submitVars >>
    \/ \E s \in DOMAIN sess :
          ReportReset(s) /\ AnsweredAfter(s)
            /\ UNCHANGED << polled, fileVars, submitVars, faults >>

SpecFault == Init /\ [][NextFault]_vars

----------------------------------------------------------------------------
(* The reset scenario: an administrator posts resets, for the workflow and for
   an id that no workflow has, while workers claim the workflow's tasks. *)

NextReset ==
    \/ Submit /\ UNCHANGED otherVars
    \/ \E c \in DOMAIN held : PollStart(c, NoTask) /\ UNCHANGED << polled, otherVars >>
    \/ \E s \in DOMAIN sess : PollLock(s) /\ UNCHANGED << polled, otherVars >>
    \/ \E s \in DOMAIN sess : PollClaim(s) /\ UNCHANGED << polled, otherVars >>
    \/ \E workflow_id \in {WorkflowId, UnknownWorkflowId} :
          ResetWorkflowRequest(workflow_id)
            /\ UNCHANGED << polled, fileVars, submitVars, faults >>

SpecReset == Init /\ [][NextReset]_vars

----------------------------------------------------------------------------
(* The interleaved-plan scenario: the plan lists an independent task after a
   dependent one, so the dependent task's row is the older of the two. *)

PlanMixed == << PlanTask(StepA, <<>>, "researcher"),
                PlanTask(StepB, <<StepA>>, "analyst"),
                PlanTask(StepC, <<>>, "analyst") >>

SubmitMixed ==
    /\ wfStatus = "NONE"
    /\ PlanAndSaveTask(PlanMixed, TRUE)
    /\ UNCHANGED << audits, wfLock, sess, held, attempts, resets, polled >>

NextMixed ==
    \/ SubmitMixed /\ UNCHANGED otherVars
    \/ \E c \in DOMAIN held : PollStart(c, NoTask) /\ UNCHANGED << polled, otherVars >>
    \/ \E s \in DOMAIN sess : PollLock(s) /\ UNCHANGED << polled, otherVars >>
    \/ \E s \in DOMAIN sess : PollClaim(s) /\ UNCHANGED << polled, otherVars >>
    \/ \E c \in DOMAIN held : ReportStart(c) /\ UNCHANGED << polled, otherVars >>
    \/ \E s \in DOMAIN sess : ReportSave(s) /\ UNCHANGED << polled, otherVars >>
    \/ \E s \in DOMAIN sess : ReportWfCheck(s) /\ UNCHANGED << polled, otherVars >>
    \/ \E s \in DOMAIN sess : ReportWfUpdate(s) /\ UNCHANGED << polled, otherVars >>
    \/ \E s \in DOMAIN sess : ReportDispatch(s) /\ UNCHANGED << polled, otherVars >>
    \/ \E s \in DOMAIN sess : ReportCompleteCheck(s) /\ UNCHANGED << polled, otherVars >>
    \/ \E s \in DOMAIN sess, ok \in BOOLEAN : ReportAudit(s, ok) /\ UNCHANGED << polled, otherVars >>
    \/ \E s \in DOMAIN sess : ReportReset(s) /\ UNCHANGED << polled, otherVars >>
    \/ ResetWorkflow /\ UNCHANGED << polled, otherVars >>

SpecMixed == Init /\ [][NextMixed]_vars

----------------------------------------------------------------------------
(* Claims about the claim coordinator under concurrent polling (SpecClaim) *)

\* C1: under any interleaving of concurrent polls no task is handed to two
\* callers: the tasks the pollers received are pairwise distinct, each is
\* IN_PROGRESS and bound to the poller that received it, and every task that
\* left READY was returned to exactly the client it is bound to.
C1_AtMostOneClaim ==
    /\ \A c1, c2 \in DOMAIN held :
          (c1 # c2 /\ held[c1] # NoTask) => held[c1] # held[c2]
    /\ \A c \in DOMAIN held :
          held[c] # NoTask =>
             /\ RowOf(tasks, held[c]) # 0
             /\ tasks[RowOf(tasks, held[c])].status = "IN_PROGRESS"
             /\ tasks[RowOf(tasks, held[c])].client_id = c
    /\ \A i \in DOMAIN tasks :
          tasks[i].status = "IN_PROGRESS" =>
             /\ tasks[i].client_id \in DOMAIN held
             /\ held[tasks[i].client_id] = tasks[i].step_id

\* C1 witness: a poller lost the race for a row (the row failed the re-check
\* after the lock) and was answered null while another poller holds a task
C1_Witness ==
    \E c, d \in DOMAIN polled :
        /\ polled[c].lost /\ polled[c].state = "null"
        /\ held[d] # NoTask

ReadyAtSubmit == {i \in DOMAIN tasks : tasks[i].dependencies = << >>}

MatchingPollers ==
    {c \in DOMAIN held :
        \A i \in ReadyAtSubmit : tasks[i].assigned_agent \in ClientCaps(c)}

AllPolled == \A c \in DOMAIN polled : polled[c].state \in {"null", "task"}

\* C2: k READY tasks and n > k concurrent pollers matching all of them: once
\* every poll has returned, exactly k pollers received a task (distinct tasks,
\* IN_PROGRESS), the others received nothing, and no task is left READY.
C2_ExactlyKClaims ==
    (/\ wfStatus # "NONE"
     /\ AllPolled
     /\ Cardinality(MatchingPollers) > Cardinality(ReadyAtSubmit))
    => /\ Cardinality({c \in DOMAIN polled : polled[c].state = "task"})
            = Cardinality(ReadyAtSubmit)
       /\ Cardinality({c \in DOMAIN polled : polled[c].state = "null"})
            = Cardinality(DOMAIN polled) - Cardinality(ReadyAtSubmit)
       /\ \A i \in ReadyAtSubmit :
             /\ tasks[i].status = "IN_PROGRESS"
             /\ \E c \in DOMAIN held :
                   held[c] = tasks[i].step_id /\ tasks[i].client_id = c
       /\ \A i \in DOMAIN tasks : tasks[i].status # "READY"

\* C2 witness: two READY tasks, three matching pollers, every poll answered,
\* one of them after losing a race
C2_Witness ==
    /\ wfStatus # "NONE"
    /\ AllPolled
    /\ Cardinality(ReadyAtSubmit) = 2
    /\ Cardinality(MatchingPollers) > 2
    /\ \E c \in DOMAIN polled : polled[c].lost

----------------------------------------------------------------------------
(* Claims about the store's invariants under the full system (Spec) *)

\* every id of the dependencies list of row i is the step id of a COMPLETED row
DepsCompleted(ts, i) ==
    \A dep \in Range(ts[i].dependencies) :
        \E j \in DOMAIN ts : ts[j].step_id = dep /\ ts[j].status = "COMPLETED"

\* C3 (I2): in every reachable state a task is READY only if every id of its
\* dependencies list refers to a COMPLETED task.  Violated: a rework reset puts
\* a completed dependency back while its dependant stays READY.
C3_ReadyOnlyIfDepsCompleted ==
    \A i \in DOMAIN tasks :
        tasks[i].status = "READY" => DepsCompleted(tasks, i)

\* C4 (I5): in every reachable state the workflow is COMPLETED only if every
\* task of it is COMPLETED.  Violated: reset_tasks_for_rework leaves the
\* workflow row alone.
C4_WorkflowCompletedOnlyIfTasksCompleted ==
    wfStatus = "COMPLETED" =>
        \A i \in DOMAIN tasks : tasks[i].status = "COMPLETED"

\* C5 (I4): in every reachable state at most one Result row exists per task.
\* Violated: save_task_result inserts a row on every call and the reset does
\* not delete the rows of the tasks it puts back.
C5_AtMostOneResultPerTask ==
    \A i \in DOMAIN results : results[i] <= 1

\* C6: a task is claimed (READY -> IN_PROGRESS) only when every dependency of
\* it is COMPLETED at the moment of the claim.  Violated: the dependencies are
\* read before the claim is written and their rows are not locked, so a reset
\* that commits in between puts a dependency back.
C6_ClaimOnlyWithDepsCompleted ==
    [][\A i \in DOMAIN tasks :
          (/\ i \in DOMAIN tasks'
           /\ tasks[i].status = "READY"
           /\ tasks'[i].status = "IN_PROGRESS")
          => DepsCompleted(tasks, i)]_vars

\* the statuses a task status may move between (old, new)
AllowedTransition(old, new, dependency_free) ==
    \/ old = new
    \/ old = "PENDING" /\ new = "READY"
    \/ old = "READY" /\ new = "IN_PROGRESS"
    \/ old = "IN_PROGRESS" /\ new = "COMPLETED"
    \/ old = "COMPLETED" /\ new = "PENDING"
    \/ old = "COMPLETED" /\ new = "READY" /\ dependency_free

\* C10: a task's status changes only along PENDING -> READY, READY ->
\* IN_PROGRESS, IN_PROGRESS -> COMPLETED and the rework reset (COMPLETED ->
\* PENDING, dependency-free tasks re-marked READY); FAILED is never entered.
\* Violated: the reset marks an IN_PROGRESS dependency-free task READY, and
\* save_task_result completes a task whatever its status.
C10_OnlyAllowedTransitions ==
    [][\A i \in DOMAIN tasks :
          i \in DOMAIN tasks' =>
             /\ AllowedTransition(tasks[i].status, tasks'[i].status,
                                  tasks[i].dependencies = << >>)
             /\ tasks'[i].status # "FAILED"]_vars

----------------------------------------------------------------------------
(* Claims about readiness propagation and workflow completion (Spec) *)

\* the saved graph is A -> B, A -> C, B + C -> D (rows 1..4)
IsDiamond ==
    /\ Len(tasks) = 4
    /\ tasks[4].dependencies = << tasks[2].step_id, tasks[3].step_id >>

\* a report_result handler that has saved its result and has not yet run
\* check_and_dispatch_ready_tasks
SavedNotDispatched(s) ==
    /\ sess[s].op = "report"
    /\ sess[s].pc \in {"wf_check", "wf_update", "dispatch"}

\* C7: for the graph A -> B, A -> C, B + C -> D (no rework reset): D becomes
\* READY at most once, it has left PENDING only if B and C are both COMPLETED,
\* and once B and C are COMPLETED and their result submissions have
\* propagated, D has become READY exactly once.  Violated: two concurrent
\* submissions both load D as PENDING; the second propagation writes READY
\* over the status D has reached since the first.
C7_DiamondReadyExactlyOnce ==
    (IsDiamond /\ resets = 0) =>
        /\ readied[4] <= 1
        /\ (tasks[4].status # "PENDING" \/ readied[4] > 0) =>
              /\ tasks[2].status = "COMPLETED"
              /\ tasks[3].status = "COMPLETED"
        /\ (/\ tasks[2].status = "COMPLETED"
            /\ tasks[3].status = "COMPLETED"
            /\ \A s \in DOMAIN sess : ~SavedNotDispatched(s))
           => (readied[4] = 1 /\ tasks[4].status # "PENDING")

C9_WorkflowCompletedNext ==
    (/\ tasks # << >>
     /\ \A i \in DOMAIN tasks : tasks[i].status = "COMPLETED"
     /\ wfStatus # "COMPLETED")
    => \E s \in DOMAIN sess :
          sess[s].op = "report" /\ sess[s].pc \in {"wf_check", "wf_update"}

\* C9 witness: the last two tasks were completed by concurrent submissions
\* and the workflow is COMPLETED
C9_Witness ==
    /\ wfStatus = "COMPLETED"
    /\ Len(tasks) >= 2
    /\ \A i \in DOMAIN tasks : tasks[i].status = "COMPLETED"
    /\ \E s, r \in DOMAIN sess :
          /\ s # r /\ sess[s].tid # sess[r].tid
          /\ sess[s].op = "report" /\ sess[s].pc # "save"
          /\ sess[r].op = "report" /\ sess[r].pc # "save"

----------------------------------------------------------------------------
(* Claims about the rework reset (Spec) *)

\* a step in which reset_tasks_for_rework committed
ResetStep == resets' = resets + 1

C12_ResetIdempotent ==
    [][ResetStep => ResetTasksForRework(tasks') = tasks']_vars

\* C12 witness: a reset has changed the rows (a task that had a result is
\* PENDING again) and a second reset would change nothing
C12_Witness ==
    /\ resets = 1
    /\ ResetTasksForRework(tasks) = tasks
    /\ \E i \in DOMAIN tasks :
          /\ tasks[i].status = "PENDING" /\ results[i] >= 1
          /\ \E j \in DOMAIN tasks :
                /\ tasks[j].step_id \in Range(tasks[i].dependencies)
                /\ tasks[j].status = "READY"

\* C13: when a reset returns no Result row remains for a task the reset moved
\* from COMPLETED back to PENDING or READY.  Violated: the reset updates
\* task_steps and task_graphs only; the results rows stay.
C13_ResetDiscardsResults ==
    [][ResetStep =>
          \A i \in DOMAIN tasks :
             (tasks[i].status = "COMPLETED" /\ tasks'[i].status # "COMPLETED")
             => results'[i] = 0]_vars

----------------------------------------------------------------------------
(* Claims about the file lock records of the store (SpecRecord) *)

\* the active records of a path: is_active and not expired
ActiveRecords(file_path) == ExistingLocks(file_access, file_path)

\* C15 (I7): under any interleaving of concurrent acquire_file_lock calls two
\* active records on the same path coexist only if both are read.  Violated:
\* the check is a plain SELECT and the INSERT follows in a later statement,
\* so two calls both pass the check before either inserts its record.
C15_ActiveRecordsCompatible ==
    \A file_path \in FilePaths :
        \A i, j \in ActiveRecords(file_path) :
            i # j => /\ file_access[i].access_type = "read"
                     /\ file_access[j].access_type = "read"

\* C19: acquire_file_lock for read access succeeds while other clients hold
\* active read records on the path and no write or exclusive record is
\* active.  Violated: the unique constraint on (file_path, access_type)
\* rejects the second read record of a path.
C19_ReadAcquireSucceedsAmongReaders ==
    [][\A c \in DOMAIN calls :
          (/\ calls[c].op = "acquire" /\ calls[c].access_type = "read"
           /\ calls'[c].op = "idle"
           /\ \E i \in ActiveRecords(calls[c].file_path) :
                 file_access[i].client_id # c
           /\ \A i \in ActiveRecords(calls[c].file_path) :
                 file_access[i].access_type = "read")
          => calls'[c].returned = "true"]_vars

----------------------------------------------------------------------------
(* Claims about the in-process file access coordinator (SpecLock) *)

\* coroutine j is inside the body of an async with file_lock on the path
Holds(j, file_path) ==
    cors[j].pc = "held" /\ cors[j].file_path = file_path

C16_ConflictFailsWithTimeout ==
    [][\A k \in DOMAIN cors :
          (/\ cors[k].pc \in {"idle", "retry"}
           /\ cors'[k].pc = "raised"
           /\ \E j \in DOMAIN cors \ {k} :
                 /\ Holds(j, cors'[k].file_path)
                 /\ ~(cors[j].access_type = "read"
                      /\ cors'[k].access_type = "read"))
          => cors'[k].raised = "FileLockTimeout"]_vars

\* C17: an acquisition is granted or fails within its timeout plus one
\* backoff step, also while an incompatible OS lock is held on the file.
\* Violated: flock is called without LOCK_NB and blocks until the lock is
\* free, however long that takes.
C17_AcquisitionWithinTimeout ==
    \A k \in DOMAIN cors :
        cors[k].pc \in {"retry", "flock"} => cors[k].waited <= TimeoutTicks + 1

C20_SiblingWritersExcluded ==
    \A k, j \in DOMAIN cors :
        ~(/\ k # j
          /\ cors[k].kind = "task" /\ cors[k].pc = "body"
          /\ cors[j].kind = "task" /\ cors[j].pc = "body"
          /\ cors[k].file_path = cors[j].file_path
          /\ cors[k].access_type = "write" /\ cors[j].access_type = "write"
          /\ cors[k].raised = "none" /\ cors[j].raised = "none")

----------------------------------------------------------------------------
(* Claims about SaveTaskGraph and PlanAndSave under concurrent submission
   (SpecSubmit) *)

\* C21: no two distinct persisted tasks share a step id and no two persisted
\* workflows share a workflow id, whatever the interleaving of the concurrent
\* save_task_graph callers, including the first allocations (no counter row
\* yet) and restarts that abort the handlers in flight.
C21_IdsUnique ==
    /\ \A i, j \in DOMAIN task_steps :
          i # j => task_steps[i].step_id # task_steps[j].step_id
    /\ \A i, j \in DOMAIN task_graphs :
          i # j => task_graphs[i].workflow_id # task_graphs[j].workflow_id

\* two handlers that both found no counter row have finished, one of them
\* with its workflow persisted, the other rejected by the unique index
C21_Witness ==
    /\ Len(task_graphs) >= 1
    /\ Len(task_steps) >= 1
    /\ \E u, v \in DOMAIN subs :
          /\ u # v
          /\ subs[u].response = "200"
          /\ subs[v].response = "500"
          /\ subs[v].failed # {}
          /\ faults = 0

\* the persisted task rows of a workflow
StepsOf(workflow_id) ==
    {i \in DOMAIN task_steps : task_steps[i].workflow_id = workflow_id}

\* C22: after the save every entry of every persisted task's dependencies is
\* the persisted step id of a task of the same workflow, whatever the order of
\* the tasks in the submitted graph.
C22_DependenciesRewritten ==
    \A i \in DOMAIN task_steps :
        \A dep \in Range(task_steps[i].dependencies) :
            \E j \in StepsOf(task_steps[i].workflow_id) :
                task_steps[j].step_id = dep

\* the writes of save call c of handler u that are durable
DurableOf(u, c) ==
    {i \in DOMAIN task_graphs : task_graphs[i].by = << u, c >>}
        \cup {i \in DOMAIN task_steps : task_steps[i].by = << u, c >>}

\* C23: a save_task_graph call that raised leaves nothing durable: no workflow
\* row, no task row and no counter advance of it is ever committed, also when
\* plan_and_save_task catches the failure and saves the fallback workflow with
\* the same session.
C23_NoPartialPersist ==
    \A u \in DOMAIN subs : \A c \in subs[u].failed :
        /\ DurableOf(u, c) = {}
        /\ << u, c >> \notin advanced

\* the first save had added its workflow row when it raised, the handler went
\* on to the fallback save, and the request has ended
C23_Witness ==
    \E u \in DOMAIN subs :
        /\ subs[u].pc = "done"
        /\ subs[u].response = "500"
        /\ 1 \in subs[u].failed
        /\ subs[u].saves = 2
        /\ \E i \in DOMAIN subs[u].wfs : subs[u].wfs[i].by = << u, 1 >>
        /\ DurableOf(u, 1) = {}

\* the request of handler u has been answered and none of its saves raised
Answered(u) ==
    /\ subs[u].pc = "done"
    /\ subs[u].response # "none"
    /\ subs[u].failed = {}

\* C24: a plan in which a task references an unknown step id is rejected: the
\* request is answered 422 and no persisted task keeps the dangling reference.
C24_DanglingPlanRejected ==
    \A u \in DOMAIN subs :
        (Answered(u) /\ subs[u].llmOk /\ ~ValidateDependencies(subs[u].plan))
            => /\ subs[u].response = "422"
               /\ \A i \in DOMAIN task_steps :
                     task_steps[i].by[1] = u =>
                        StepUnknown \notin Range(task_steps[i].dependencies)

RECURSIVE ReachableFrom(_, _, _)
\* step ids reachable from the step ids in from by following dependencies,
\* in at most n steps; graph is a sequence of tasks
ReachableFrom(graph, from, n) ==
    IF n = 0 THEN from
    ELSE LET next == UNION {Range(graph[i].dependencies) :
                              i \in {j \in DOMAIN graph : graph[j].step_id \in from}}
         IN ReachableFrom(graph, from \cup next, n - 1)

\* some task of the graph depends, directly or not, on itself
HasCycle(graph) ==
    \E i \in DOMAIN graph :
        graph[i].step_id \in
            ReachableFrom(graph, Range(graph[i].dependencies), Len(graph))

\* the persisted tasks of a workflow, as a graph
PersistedGraph(workflow_id) ==
    LET rows == SeqOfSet(StepsOf(workflow_id))
    IN [n \in DOMAIN rows |-> task_steps[rows[n]]]

\* C25: a plan whose dependencies contain a cycle (a task that depends on
\* itself included) is rejected at submit time, so that no persisted workflow
\* contains a dependency cycle.
C25_CyclicPlanRejected ==
    /\ \A u \in DOMAIN subs :
          (Answered(u) /\ subs[u].llmOk /\ HasCycle(subs[u].plan))
              => subs[u].response = "422"
    /\ \A i \in DOMAIN task_graphs :
          ~HasCycle(PersistedGraph(task_graphs[i].workflow_id))

\* the workflow id the handler returned names a persisted workflow whose
\* single task is READY and assigned to analyst
ReturnedFallback(u) ==
    LET r == subs[u]
        workflow_id == r.wfs[Len(r.wfs)].workflow_id
    IN /\ r.response = "200"
       /\ r.wfs # << >>
       /\ \E i \in DOMAIN task_graphs : task_graphs[i].workflow_id = workflow_id
       /\ Cardinality(StepsOf(workflow_id)) = 1
       /\ \A i \in StepsOf(workflow_id) :
             /\ task_steps[i].status = "READY"
             /\ task_steps[i].assigned_agent = "analyst"
             /\ task_steps[i].dependencies = << >>

----------------------------------------------------------------------------
(* Claims about the order and the outcome of claims (Spec, SpecClaim) *)

\* session s hands the task it has locked to its poller in this step
ClaimStep(s) ==
    /\ sess[s].op = "poll" /\ sess[s].pc = "claim"
    /\ sess'[s].op = "idle"
    /\ held'[sess[s].client] = sess[s].tid

\* rows created before row i that the poller's statement would accept
EarlierClaimable(ts, i, caps) ==
    {j \in DOMAIN ts : j < i /\ ClaimPredicate(ts[j], caps)}

SnapshotStep(s) ==
    /\ sess[s].pc \in {"idle", "select"}
    /\ sess'[s].op = "poll" /\ sess'[s].pc = "lock"

\* the statement of session s passes over the first row of its snapshot
SkipStep(s) ==
    /\ sess[s].op = "poll" /\ sess[s].pc = "lock"
    /\ sess'[s].op = "poll" /\ sess'[s].pc = "lock"
    /\ sess[s].cand # << >>
    /\ sess'[s].cand = Tail(sess[s].cand)

PreferredCallEnds(s) ==
    /\ sess[s].op = "poll" /\ sess[s].call = 1
    /\ sess'[s].call # 1
    /\ sess[s].cand # << >>
    /\ ClaimPredicate(tasks[Head(sess[s].cand)], ClientCaps(sess[s].client))
    /\ AllDepsCompleted(tasks, Head(sess[s].cand))

\* C28: a call of get_and_claim_ready_task with a preferred_task_id that names
\* a READY, unclaimed task of the caller's capabilities whose dependencies are
\* all COMPLETED claims and returns that task: it is IN_PROGRESS and bound to
\* the caller when the call ends.
C28_PreferredTaskClaimed ==
    [][\A s \in DOMAIN sess :
          PreferredCallEnds(s) =>
              LET i == Head(sess[s].cand)
              IN /\ tasks'[i].status = "IN_PROGRESS"
                 /\ tasks'[i].client_id = sess[s].client
                 /\ held'[sess[s].client] = tasks[i].step_id]_vars

----------------------------------------------------------------------------
(* Claims about failures inside the poll and result handlers (SpecFault) *)

\* the step of session s in which a statement of its handler raises
FailedStep(s) ==
    /\ faults' > faults
    /\ sess'[s] # sess[s]

\* C29: an internal failure during a claim attempt gives the poller "no task"
\* (200 with null) and leaves every task's status and claiming client
\* unchanged.
C29_FailedClaimChangesNothing ==
    [][\A s \in DOMAIN sess :
          (sess[s].op = "poll" /\ FailedStep(s))
          => /\ sess'[s].op = "idle" =>
                  /\ sess[s].client \in DOMAIN answers'
                  /\ answers'[sess[s].client] = "null"
             /\ \A i \in DOMAIN tasks :
                  /\ tasks'[i].status = tasks[i].status
                  /\ tasks'[i].client_id = tasks[i].client_id]_vars

\* C30: POST /results answers 404 only for a task that does not exist.
C30_NotFoundOnlyForUnknownTask ==
    [][\A s \in DOMAIN sess :
          (/\ sess[s].op = "report" /\ sess'[s].op = "idle"
           /\ sess[s].client \in DOMAIN answers'
           /\ answers'[sess[s].client] = "404")
          => RowOf(tasks, sess[s].tid) = 0]_vars

----------------------------------------------------------------------------
(* Claims about the audit of a completed workflow (SpecFault) *)

\* the step in which trigger_audit, called by session s, returns a report with
\* is_successful = False: after its reset, or from its except block
AuditReturnsFailed(s) ==
    /\ sess[s].op = "report" /\ sess'[s].op = "idle"
    /\ \/ sess[s].pc = "reset"
       \/ /\ sess[s].pc = "audit"
          /\ (faults' > faults \/ WorkflowResultCount = 0)

\* C31: whenever trigger_audit returns an unsuccessful report (the auditor's,
\* one forced by the confidence threshold, or the synthetic report of a failed
\* audit), reset_tasks_for_rework has run for the workflow before it returns.
C31_FailedAuditResets ==
    [][\A s \in DOMAIN sess :
          AuditReturnsFailed(s) => resets' = resets + 1]_vars

----------------------------------------------------------------------------
(* Claims about POST /workflows/{id}/reset (SpecReset) *)

\* the step in which a reset request is answered
ResetAnswered ==
    /\ 0 \in DOMAIN answers'
    /\ answers' # answers

\* C32: a reset request is answered 204 only for a workflow that exists (a
\* request for an id no workflow has is answered 404), and a request for an
\* unknown id changes no task.
C32_ResetUnknownWorkflowNotFound ==
    [][ResetAnswered =>
          /\ answers'[0].code = "204" =>
                (answers'[0].workflow_id = WorkflowId /\ wfStatus # "NONE")
          /\ answers'[0].workflow_id # WorkflowId => tasks' = tasks]_vars

----------------------------------------------------------------------------
(* Claims about the registry of the in-process coordinator (SpecLock) *)

\* FileAccessManager.is_file_locked
IsFileLocked(m, file_path) == file_path \in DOMAIN m.active_locks

\* C33: the registry of a process reports a path as locked exactly while a
\* coroutine of the process holds a lock on it; with several readers, until
\* the last of them has released.
C33_LockedExactlyWhileHeld ==
    \A p \in Procs, f \in FilePaths :
        IsFileLocked(managers[p], f)
            <=> \E k \in DOMAIN cors : ProcOf(k) = p /\ Holds(k, f)

----------------------------------------------------------------------------
(* Claims about claims, results and audits in the full system (Spec) *)

\* C34: a READY task has no claiming client (so the claim statement can select
\* it), also after reset_tasks_for_rework ran while a dependency-free task was
\* IN_PROGRESS.
C34_ReadyTaskUnclaimed ==
    \A i \in DOMAIN tasks :
        tasks[i].status = "READY" => tasks[i].client_id = NoClient

\* C35: a task becomes COMPLETED only by a result from the client that holds
\* the claim on it: the row is IN_PROGRESS and its client_id is the client
\* whose result is saved.
C35_CompletedOnlyByClaimHolder ==
    [][\A i \in DOMAIN tasks :
          (/\ i \in DOMAIN tasks'
           /\ tasks[i].status # "COMPLETED"
           /\ tasks'[i].status = "COMPLETED")
          => /\ tasks[i].status = "IN_PROGRESS"
             /\ \E s \in DOMAIN sess :
                   /\ sess[s].op = "report" /\ sess[s].pc = "save"
                   /\ sess'[s].pc # "save"
                   /\ sess[s].tid = tasks[i].step_id
                   /\ sess[s].client = tasks[i].client_id]_vars

\* C36: each completion of the workflow is audited exactly once, also when its
\* last tasks are completed by concurrent result submissions.  A complete
\* workflow stays complete until a reset, so it has become complete at most
\* resets + 1 times: no more audit reports than that exist.
C36_OneAuditPerCompletion ==
    audits <= resets + 1

----------------------------------------------------------------------------
(* Claims about the claim coordinator and an interleaved plan (SpecMixed) *)

\* session s answers a poll with null while no other poll is in flight
LonePollReturnsNull(s) ==
    /\ sess[s].op = "poll" /\ sess[s].pc = "lock"
    /\ sess'[s].op = "idle"
    /\ held'[sess[s].client] = NoTask
    /\ \A r \in DOMAIN sess \ {s} : sess[r].op # "poll"

\* C37: a poll without a concurrent poller returns a task whenever a READY,
\* unclaimed task of the poller's capabilities with all its dependencies
\* COMPLETED is among the rows its statement read: an older READY task that
\* fails the dependency check does not keep it back.
C37_OlderTaskDoesNotBlock ==
    [][\A s \in DOMAIN sess :
          LonePollReturnsNull(s)
          => ~ \E n \in DOMAIN sess[s].cand :
                 LET i == sess[s].cand[n]
                 IN /\ ClaimPredicate(tasks[i], ClientCaps(sess[s].client))
                    /\ DepsCompleted(tasks, i)]_vars

----------------------------------------------------------------------------
(* Claims about failed acquisitions and the registry (SpecLock) *)

\* the step in which the acquisition of coroutine k ends with an exception
AcquireFails(k) ==
    /\ cors[k].pc \in {"idle", "retry", "flock"}
    /\ cors'[k].pc \in {"raised", "body"}
    /\ cors'[k].raised \in {"FileLockError", "FileLockTimeout"}

\* C38: an acquisition that fails or times out leaves the registry entry of
\* the coroutine that holds the path untouched: the path is still reported as
\* locked, with the holder's entry.
C38_FailedAcquireKeepsHolderEntry ==
    [][\A k \in DOMAIN cors :
          AcquireFails(k)
          => LET p == ProcOf(k)
                 f == cors'[k].file_path
             IN (/\ IsFileLocked(managers[p], f)
                 /\ \E j \in DOMAIN cors \ {k} : ProcOf(j) = p /\ Holds(j, f))
                => /\ IsFileLocked(managers'[p], f)
                   /\ managers'[p].active_locks[f] = managers[p].active_locks[f]]_vars

----------------------------------------------------------------------------
(* Claims about released file lock records (SpecRecord) *)

\* a record of the path and access type that was released (is_active = False)
ReleasedRecord(file_path, access_type) ==
    \E i \in DOMAIN file_access :
        /\ file_access[i].file_path = file_path
        /\ file_access[i].access_type = access_type
        /\ ~file_access[i].is_active

\* C39: after a lock record of a path has been released, acquire_file_lock for
\* the same path and access type succeeds whenever no active record conflicts
\* with it.
C39_ReacquireAfterRelease ==
    [][\A c \in DOMAIN calls :
          (/\ calls[c].op = "acquire" /\ calls'[c].op = "idle"
           /\ ReleasedRecord(calls[c].file_path, calls[c].access_type)
           /\ CanAcquireFileLock(file_access, calls[c].file_path,
                                 calls[c].access_type))
          => calls'[c].returned = "true"]_vars

----------------------------------------------------------------------------
(* The rework scenario: the LLM is unavailable after planning, so every     *)
(* AuditorAgent.run_audit ends in its except branch and yields the          *)
(* synthetic failed report (is_successful = False, confidence_score = 0.0). *)
(* The workers keep polling and reporting.  The rows of results and         *)
(* audit_reports and the rework history of the workflow only grow and no    *)
(* code reads their number to decide on a reset, so the counters of the     *)
(* model stop counting at MaxCounted and nothing stops the handlers.        *)

Counted(n) == IF n < MaxCounted THEN n + 1 ELSE n

\* DatabaseService.save_task_result up to its commit, as ReportSave
ReworkSave(s) ==
    /\ sess[s].op = "report" /\ sess[s].pc = "save"
    /\ LET i == RowOf(tasks, sess[s].tid)
       IN IF i = 0
          THEN /\ Respond(s, FALSE)
               /\ UNCHANGED << tasks, results >>
          ELSE /\ FreeFor(s, i)
               /\ results' = [results EXCEPT ![i] = Counted(@)]
               /\ tasks' = [tasks EXCEPT ![i].status = "COMPLETED",
                                         ![i].completed_at = TRUE]
               /\ sess' = [sess EXCEPT ![s].pc = "wf_check",
                                        ![s].wfSeen = wfStatus]
               /\ UNCHANGED << held, attempts >>
    /\ UNCHANGED << wfStatus, projStatus, counters, audits, taskLock, wfLock,
                    resets, readied >>

\* AgentManager.trigger_audit up to the saved report: run_prompt_for_json
\* raises, run_audit returns the synthetic failed report, save_audit_report
\* commits it
ReworkAudit(s) ==
    /\ sess[s].op = "report" /\ sess[s].pc = "audit"
    /\ audits' = Counted(audits)
    /\ taskLock' = ReleasedTaskLocks(s, taskLock)
    /\ wfLock' = ReleasedWfLock(s)
    /\ IF WorkflowResultCount > 0
       THEN /\ sess' = [sess EXCEPT ![s].pc = "reset"]
            /\ UNCHANGED << held, attempts >>
       ELSE Respond(s, TRUE)
    /\ UNCHANGED << tasks, wfStatus, projStatus, counters, results, resets,
                    readied >>

\* trigger_audit after the failed report: reset_tasks_for_rework
ReworkReset(s) ==
    /\ sess[s].op = "report" /\ sess[s].pc = "reset"
    /\ \A i \in ResetLockSet(tasks) : FreeFor(s, i)
    /\ wfLock \in {0, s}
    /\ tasks' = ResetTasksForRework(tasks)
    /\ readied' = Readied(tasks, ResetTasksForRework(tasks), readied)
    /\ taskLock' = ReleasedTaskLocks(s, taskLock)
    /\ wfLock' = 0
    /\ resets' = Counted(resets)
    /\ Respond(s, TRUE)
    /\ UNCHANGED << wfStatus, projStatus, counters, results, audits >>

NextRework ==
    \/ Submit /\ Len(tasks') <= MaxFaultTasks /\ UNCHANGED otherVars
    \/ \E c \in DOMAIN held : PollStart(c, NoTask) /\ UNCHANGED << polled, otherVars >>
    \/ \E s \in DOMAIN sess : PollLock(s) /\ UNCHANGED << polled, otherVars >>
    \/ \E s \in DOMAIN sess : PollClaim(s) /\ UNCHANGED << polled, otherVars >>
    \/ \E c \in DOMAIN held : ReportStart(c) /\ UNCHANGED << polled, otherVars >>
    \/ \E s \in DOMAIN sess : ReworkSave(s) /\ UNCHANGED << polled, otherVars >>
    \/ \E s \in DOMAIN sess : ReportWfCheck(s) /\ UNCHANGED << polled, otherVars >>
    \/ \E s \in DOMAIN sess : ReportWfUpdate(s) /\ UNCHANGED << polled, otherVars >>
    \/ \E s \in DOMAIN sess : ReportDispatch(s) /\ UNCHANGED << polled, otherVars >>
    \/ \E s \in DOMAIN sess : ReportCompleteCheck(s) /\ UNCHANGED << polled, otherVars >>
    \/ \E s \in DOMAIN sess : ReworkAudit(s) /\ UNCHANGED << polled, otherVars >>
    \/ \E s \in DOMAIN sess : ReworkReset(s) /\ UNCHANGED << polled, otherVars >>

\* the server handles every request to its answer and the workers poll in a
\* loop: the system does not stop while a step is possible
SpecRework == Init /\ [][NextRework]_vars /\ WF_vars(NextRework)

----------------------------------------------------------------------------
(* Claims about the audit-rework cycle (SpecRework) *)

\* a step of the system that is not the reset after a failed audit
NoReworkReset ==
    \A s \in DOMAIN sess : sess[s].pc = "reset" => sess'[s].pc = "reset"

====
